---- MODULE Spec2Model ----
(***************************************************************************)
(* HealthyLife: goal baseline, macro recommender, adherence tuner, food    *)
(* catalog normalizer and meal suggestion ranker, with the host handlers   *)
(* of app.py that store their results.                                     *)
(*                                                                         *)
(* Numbers.  Python floats are modelled by exact arithmetic: weights and   *)
(* heights are integers in tenths (the UI step is 0.1), other reals are    *)
(* normalized fractions [n, d].  An optional value (None / NaN / NULL) is  *)
(* the empty tuple and a present value v is the 1-tuple <<v>>.             *)
(***************************************************************************)
EXTENDS Integers, Sequences, FiniteSets, TLC

VARIABLES
    pc,       \* position of the current scenario
    profile,  \* stored profile row of the user
    goals,    \* stored goals row of the user
    logs,     \* the user's log rows, in date order
    last,     \* the last host handler that ran, with the goals it read
    args,     \* inputs of a call to a core function
    ret,      \* its result
    table,    \* raw food table as read from the CSV
    foods,    \* normalized food catalog (load_foods)
    recs,     \* ranked suggestions (suggest_meals)
    today     \* the calendar date the system clock gives

vars == <<pc, profile, goals, logs, last, args, ret, table, foods, recs, today>>

----------------------------------------------------------------------------
(* Bounds of the model *)

MaxLogs == 8          \* longest log history given to adherence_tune
MaxHostLogs == 2      \* longest log history stored by the host scenario

----------------------------------------------------------------------------
(* Optional values and Python numeric conversions *)

None == <<>>
Some(v) == <<v>>

\* Python truthiness of an optional number: None and 0 are falsy
Truthy(o) == o # None /\ o[1] # 0

\* `x or default`
OrDefault(o, d) == IF Truthy(o) THEN o[1] ELSE d

Max(a, b) == IF a >= b THEN a ELSE b
Min(a, b) == IF a <= b THEN a ELSE b

\* int(a / b) for b > 0: truncation toward zero
TruncDiv(a, b) == IF a >= 0 THEN a \div b ELSE -((-a) \div b)

\* round(a / b) for b > 0: Python 3 rounds halves to the even integer
RoundHalfEven(a, b) ==
    LET q == a \div b
        r == a % b
    IN  IF 2 * r < b THEN q
        ELSE IF 2 * r > b THEN q + 1
        ELSE IF q % 2 = 0 THEN q ELSE q + 1

\* _ival(x, default) of app.py: stored goal values are integers or NULL
_ival(x, default) == IF x # None THEN x[1] ELSE default

----------------------------------------------------------------------------
(* utils.py: age, goal baseline, macro recommender, adherence tuner *)

\* the date on which the scenarios that do not let time pass are run
StartDate == [year |-> 2025, month |-> 6, day |-> 15]

\* a clock that jumps a year ahead with every result already returned
Today_PerCall == [today EXCEPT !.year = @ + Len(ret)]

\* date.today(): read from the system clock at every call
Today == today

\* the days of a month of the proleptic Gregorian calendar
DaysInMonth(y, m) ==
    IF m = 2 THEN (IF (y % 4 = 0 /\ y % 100 # 0) \/ y % 400 = 0 THEN 29 ELSE 28)
    ELSE IF m \in {4, 6, 9, 11} THEN 30 ELSE 31

\* datetime.strptime(dob_iso, "%Y-%m-%d").date() succeeds
ValidDate(d) ==
    /\ d.year \in 1..9999
    /\ d.month \in 1..12
    /\ d.day \in 1..DaysInMonth(d.year, d.month)

\* a comparison of the months alone
BirthdayAhead_MonthOnly(d) == Today.month < d.month

\* (today.month, today.day) < (dob.month, dob.day)
BirthdayAhead(d) ==
    \/ Today.month < d.month
    \/ (Today.month = d.month /\ Today.day < d.day)

\* parse_age: None for an absent or unparseable dob, else whole years >= 0
parse_age(dob) ==
    IF dob = None THEN None
    ELSE IF ~ValidDate(dob[1]) THEN None
    ELSE LET d == dob[1]
             years == Today.year - d.year - (IF BirthdayAhead(d) THEN 1 ELSE 0)
         IN  Some(Max(0, years))

\* ACTIVITY_FACTORS, in thousandths; unknown levels use 1.375
ActivityFactor(level) ==
    CASE level = "sedentary" -> 1200
      [] level = "light"     -> 1375
      [] level = "moderate"  -> 1550
      [] level = "active"    -> 1725
      [] OTHER               -> 1375

\* the formula without its sex term
SexTerm_Zero(sex) == 0

\* sex term of the Mifflin-St Jeor formula
SexTerm(sex) ==
    CASE sex = "male"   -> 5
      [] sex = "female" -> -161
      [] OTHER          -> 0

\* 8 * bmr, an integer for weights and heights given in tenths
Bmr8(p) ==
    LET w == OrDefault(p.weight_kg, 700)
        h == OrDefault(p.height_cm, 1700)
        a == OrDefault(parse_age(p.dob), 25)
    IN  8 * w + 5 * h - 40 * a + 8 * SexTerm(p.sex)

auto_goals(p) ==
    LET level == IF p.activity_level = "unset" THEN "light" ELSE p.activity_level
        kcal == TruncDiv(Bmr8(p) * ActivityFactor(level), 8000)
    IN  [kcal      |-> kcal,
         protein_g |-> TruncDiv(25 * kcal, 400),
         carbs_g   |-> TruncDiv(45 * kcal, 400),
         fat_g     |-> TruncDiv(30 * kcal, 900),
         fiber_g   |-> 25,
         water_ml  |-> 2000]

\* 1.8 g of protein per kg in every scenario
ProteinFactor_Flat(goal) == 18

\* protein grams per kg (in tenths) and fat share of kcal (in hundredths)
ProteinFactor(goal) ==
    CASE goal = "muscle_gain" -> 20
      [] goal = "fat_loss"    -> 18
      [] OTHER                -> 16

FatRatio(goal) ==
    CASE goal = "muscle_gain" -> 25
      [] goal = "fat_loss"    -> 30
      [] OTHER                -> 28

\* the remaining energy divided by 4 and rounded up
CarbsRaw_RoundUp(kcal, protein, fat) == TruncDiv(kcal - (protein * 4 + fat * 9) + 3, 4)

\* the carbohydrate grams left after protein and fat, before the clamp
CarbsRaw(kcal, protein, fat) == TruncDiv(kcal - (protein * 4 + fat * 9), 4)

\* a gram value returned unclamped
ClampGrams_None(g) == g

\* the final clamp of a gram value
ClampGrams(g) == Max(g, 0)

recommended_macros(p, kcal, goal) ==
    LET weight  == OrDefault(p.weight_kg, 700)
        protein == RoundHalfEven(ProteinFactor(goal) * weight, 100)
        fat     == TruncDiv(FatRatio(goal) * kcal, 900)
        carbs   == CarbsRaw(kcal, protein, fat)
    IN  [protein_g |-> ClampGrams(protein),
         fat_g     |-> ClampGrams(fat),
         carbs_g   |-> ClampGrams(carbs)]

\* window of adherence_tune (df.tail(7))
TailN == 7

\* the whole history instead of its last n rows
TailRows_Whole(df, n) == df

\* df.tail(n)
TailRows(df, n) ==
    IF Len(df) <= n THEN df ELSE SubSeq(df, Len(df) - n + 1, Len(df))

\* df.dropna(subset=["kcal_in", "protein_g"])
DropNaKcalProtein(df) ==
    SelectSeq(df, LAMBDA e : e.kcal_in # None /\ e.protein_g # None)

\* goals.get(k) is falsy: the row is absent, the value NULL, or 0
NoTarget(v) == ~Truthy(v)

\* kcal_in within the target less 5% and plus 5%, the bounds left out
KcalHit_Exclusive(e, kt) ==
    /\ 100 * e.kcal_in[1] > 95 * kt
    /\ 100 * e.kcal_in[1] < 105 * kt

\* df["kcal_in"].between(kcal_target * 0.95, kcal_target * 1.05)
KcalHit(e, kt) ==
    /\ 100 * e.kcal_in[1] >= 95 * kt
    /\ 100 * e.kcal_in[1] <= 105 * kt

\* df["protein_g"] >= p_target * 0.9
ProteinHit(e, pt) == 10 * e.protein_g[1] >= 9 * pt

\* the thresholds 0.4 and 0.8 taken as part of the outer ranges
KcalAdjust_Inclusive(hits, n) ==
    (IF 10 * hits <= 4 * n THEN -100 ELSE 0) + (IF 10 * hits >= 8 * n THEN 100 ELSE 0)

\* kcal_adjust from the hit count: rate < 0.4 lowers, rate > 0.8 raises
KcalAdjust(hits, n) ==
    (IF 10 * hits < 4 * n THEN -100 ELSE 0) + (IF 10 * hits > 8 * n THEN 100 ELSE 0)

adherence_tune(df, g) ==
    IF Len(df) = 0 \/ ~g.row THEN None
    ELSE LET d == DropNaKcalProtein(TailRows(df, TailN))
         IN  IF Len(d) = 0 THEN None
             ELSE IF NoTarget(g.kcal) \/ NoTarget(g.protein_g) THEN None
             ELSE LET kt == g.kcal[1]
                      pt == g.protein_g[1]
                      kh == Len(SelectSeq(d, LAMBDA e : KcalHit(e, kt)))
                      ph == Len(SelectSeq(d, LAMBDA e : ProteinHit(e, pt)))
                  IN  Some([kcal_rate    |-> [n |-> kh, d |-> Len(d)],
                            protein_rate |-> [n |-> ph, d |-> Len(d)],
                            kcal_adjust  |-> KcalAdjust(kh, Len(d))])

----------------------------------------------------------------------------
(* db.py: the goals row *)

GoalKeys == {"kcal", "protein_g", "carbs_g", "fat_g", "fiber_g", "water_ml"}

\* db.get_goals when no row exists: {}
NoGoals ==
    [row |-> FALSE, kcal |-> None, protein_g |-> None, carbs_g |-> None,
     fat_g |-> None, fiber_g |-> None, water_ml |-> None]

\* a complete goals dict as a stored row
GoalsRow(g) ==
    [row |-> TRUE, kcal |-> Some(g.kcal), protein_g |-> Some(g.protein_g),
     carbs_g |-> Some(g.carbs_g), fat_g |-> Some(g.fat_g),
     fiber_g |-> Some(g.fiber_g), water_ml |-> Some(g.water_ml)]

\* DB.upsert_goals: every column is overwritten by goals.get(k)
upsert_goals(g) == [g EXCEPT !.row = TRUE]

\* profiles row inserted by DB.create_user
NewProfile ==
    [sex |-> "unset", dob |-> None, height_cm |-> None, weight_kg |-> None,
     activity_level |-> "light"]

----------------------------------------------------------------------------
(* foods.py: text of cells and column names, as tuples of characters;
   a character outside ASCII is written by its code point, as in "u98df" *)

Digits == <<"0", "1", "2", "3", "4", "5", "6", "7", "8", "9">>
IsDigit(c) == \E v \in 1..10 : Digits[v] = c
DigitVal(c) == (CHOOSE v \in 1..10 : Digits[v] = c) - 1

\* str.lower() on one character
LowerMap ==
    [ A |-> "a", B |-> "b", C |-> "c", D |-> "d", E |-> "e", F |-> "f", G |-> "g", H |-> "h", I |-> "i", J |-> "j", K |-> "k", L |-> "l", M |-> "m", N |-> "n", O |-> "o", P |-> "p", Q |-> "q", R |-> "r", S |-> "s", T |-> "t", U |-> "u", V |-> "v", W |-> "w", X |-> "x", Y |-> "y", Z |-> "z" ]

Lower(c) == IF c \in DOMAIN LowerMap THEN LowerMap[c] ELSE c

LowerStr(s) == [i \in 1..Len(s) |-> Lower(s[i])]

IsSpace(c) == c = " "

\* str.strip()
RECURSIVE LStrip(_)
LStrip(s) == IF s # <<>> /\ IsSpace(Head(s)) THEN LStrip(Tail(s)) ELSE s

RECURSIVE RStrip(_)
RStrip(s) ==
    IF s # <<>> /\ IsSpace(s[Len(s)]) THEN RStrip(SubSeq(s, 1, Len(s) - 1)) ELSE s

Strip(s) == RStrip(LStrip(s))

\* s.replace(",", "")
RemoveCommas(s) == SelectSeq(s, LAMBDA c : c # ",")

----------------------------------------------------------------------------
(* numbers: a float is the exact fraction n / d with d > 0, in lowest terms;
   NaN is None *)

Abs(a) == IF a < 0 THEN -a ELSE a

RECURSIVE Gcd(_, _)
Gcd(a, b) == IF b = 0 THEN a ELSE Gcd(b, a % b)

Rat(n, d) ==
    LET s == IF d < 0 THEN -1 ELSE 1
        g == Gcd(Abs(n), Abs(d))
    IN  [n |-> (s * n) \div g, d |-> (s * d) \div g]

Zero == [n |-> 0, d |-> 1]
RInt(k) == [n |-> k, d |-> 1]

RAdd(x, y) ==
    LET g == Gcd(x.d, y.d)
    IN  Rat(x.n * (y.d \div g) + y.n * (x.d \div g), (x.d \div g) * y.d)
RNeg(x) == [n |-> -x.n, d |-> x.d]
RSub(x, y) == RAdd(x, RNeg(y))
RMul(x, y) ==
    LET g1 == Gcd(Abs(x.n), y.d)
        g2 == Gcd(Abs(y.n), x.d)
    IN  Rat((x.n \div g1) * (y.n \div g2), (x.d \div g2) * (y.d \div g1))
\* x / y for y # 0
RDiv(x, y) == RMul(x, Rat(y.d, y.n))
RAbs(x) == [n |-> Abs(x.n), d |-> x.d]

\* x <= y, comparing integer parts and then the remainders, so that no
\* product of the two denominators is formed
RECURSIVE RLeq(_, _)
RLeq(x, y) ==
    LET fx == x.n \div x.d
        fy == y.n \div y.d
        rx == x.n % x.d
        ry == y.n % y.d
    IN  IF fx # fy THEN fx < fy
        ELSE IF rx = 0 THEN TRUE
        ELSE IF ry = 0 THEN FALSE
        ELSE RLeq([n |-> y.d, d |-> ry], [n |-> x.d, d |-> rx])

\* end of the run of digits that starts at position i
RECURSIVE DigitRunEnd(_, _)
DigitRunEnd(s, i) ==
    IF i < Len(s) /\ IsDigit(s[i + 1]) THEN DigitRunEnd(s, i + 1) ELSE i

\* value of the digits s[i..j]
RECURSIVE DigitsValue(_, _, _)
DigitsValue(s, i, j) ==
    IF j < i THEN 0 ELSE 10 * DigitsValue(s, i, j - 1) + DigitVal(s[j])

RECURSIVE Pow10(_)
Pow10(k) == IF k = 0 THEN 1 ELSE 10 * Pow10(k - 1)

\* positions where the pattern -?\d+(?:\.\d+)? can start
MatchStarts(s) ==
    { i \in 1..Len(s) : \/ IsDigit(s[i])
                        \/ (s[i] = "-" /\ i < Len(s) /\ IsDigit(s[i + 1])) }

\* float(re.search(...).group(0)) for a text that has a match
FirstNumber(s) ==
    LET start  == CHOOSE i \in MatchStarts(s) : \A j \in MatchStarts(s) : i <= j
        neg    == s[start] = "-"
        i0     == IF neg THEN start + 1 ELSE start
        i1     == DigitRunEnd(s, i0)
        frac   == i1 + 2 <= Len(s) /\ s[i1 + 1] = "." /\ IsDigit(s[i1 + 2])
        f1     == IF frac THEN DigitRunEnd(s, i1 + 2) ELSE i1 + 1
        k      == IF frac THEN f1 - (i1 + 1) ELSE 0
        whole  == DigitsValue(s, i0, i1)
        part   == IF frac THEN DigitsValue(s, i1 + 2, f1) ELSE 0
        mag    == Rat(whole * Pow10(k) + part, Pow10(k))
    IN  IF neg THEN RNeg(mag) ELSE mag

\* _to_number: NaN for a missing cell, blank text or text without a number
_to_number(x) ==
    IF x = None THEN None
    ELSE LET s == Strip(x[1])
         IN  IF s = <<>> THEN None
             ELSE LET t == RemoveCommas(s)
                  IN  IF MatchStarts(t) = {} THEN None ELSE Some(FirstNumber(t))

----------------------------------------------------------------------------
(* foods.py: column resolution and load_foods *)

StdFields == <<"food", "kcal", "protein_g", "carbs_g", "fat_g">>

STANDARD_COLS ==
    [ food |->
        << <<"f", "o", "o", "d">>,
           <<"n", "a", "m", "e">>,
           <<"i", "t", "e", "m">>,
           <<"u98df", "u54c1">>,
           <<"u98df", "u7269">> >>,
      kcal |->
        << <<"k", "c", "a", "l">>,
           <<"c", "a", "l", "o", "r", "i", "e", "s">>,
           <<"c", "a", "l", "o", "r", "i", "e">>,
           <<"u71b1", "u91cf">>,
           <<"u5361", "u8def", "u91cc">>,
           <<"c", "a", "l", "o", "r", "i", "e", "s", " ", "(", "k", "c", "a", "l", ")">>,
           <<"k", "c", "a", "l", "/", "s", "e", "r", "v", "i", "n", "g">> >>,
      protein_g |->
        << <<"p", "r", "o", "t", "e", "i", "n">>,
           <<"p", "r", "o", "t", "e", "i", "n", "_", "g">>,
           <<"u86cb", "u767d", "u8cea">>,
           <<"u86cb", "u767d", "(", "g", ")">>,
           <<"u86cb", "u767d", "u8cea", "(", "g", ")">>,
           <<"p", "r", "o", "t", "e", "i", "n", " ", "(", "g", ")">>,
           <<"p", "r", "o", "t", "(", "g", ")">> >>,
      carbs_g |->
        << <<"c", "a", "r", "b">>,
           <<"c", "a", "r", "b", "s">>,
           <<"c", "a", "r", "b", "o", "h", "y", "d", "r", "a", "t", "e">>,
           <<"c", "a", "r", "b", "o", "h", "y", "d", "r", "a", "t", "e", "s">>,
           <<"u78b3", "u6c34">>,
           <<"u78b3", "u6c34", "u5316", "u5408", "u7269">>,
           <<"u78b3", "u6c34", "(", "g", ")">>,
           <<"c", "a", "r", "b", "s", " ", "(", "g", ")">> >>,
      fat_g |->
        << <<"f", "a", "t">>,
           <<"f", "a", "t", "_", "g">>,
           <<"u8102", "u80aa">>,
           <<"u8102", "u80aa", "(", "g", ")">>,
           <<"f", "a", "t", " ", "(", "g", ")">> >> ]

\* lc = [c.lower() for c in cols], without the strip
LowerCols_NoStrip(cols) == [i \in 1..Len(cols) |-> LowerStr(cols[i])]

\* lc = [c.strip().lower() for c in cols]
LowerCols(cols) == [i \in 1..Len(cols) |-> LowerStr(Strip(cols[i]))]

\* lc.index(name), for a name that lc contains
IndexOf(lc, name) ==
    CHOOSE i \in 1..Len(lc) : lc[i] = name /\ \A j \in 1..(i - 1) : lc[j] # name

\* the loop of _find_col over the candidates, in their order
RECURSIVE FindFirst(_, _)
FindFirst(lc, candidates) ==
    IF candidates = <<>> THEN 0
    ELSE IF \E i \in 1..Len(lc) : lc[i] = LowerStr(Head(candidates))
         THEN IndexOf(lc, LowerStr(Head(candidates)))
         ELSE FindFirst(lc, Tail(candidates))

\* _find_col: the position of the column that the first matching candidate
\* names; 0 when no candidate matches (None)
_find_col(cols, candidates) == FindFirst(LowerCols(cols), candidates)

\* the standard name as text, for a column that load_foods adds
StdName(std) ==
    CASE std = "food"      -> <<"f", "o", "o", "d">>
      [] std = "kcal"      -> <<"k", "c", "a", "l">>
      [] std = "protein_g" -> <<"p", "r", "o", "t", "e", "i", "n", "_", "g">>
      [] std = "carbs_g"   -> <<"c", "a", "r", "b", "s", "_", "g">>
      [] std = "fat_g"     -> <<"f", "a", "t", "_", "g">>

\* the resolution loop: for each standard field the position of the column
\* found by _find_col, 0 when none was found and df[std] = NaN is added
Resolve(cols) ==
    [std \in {StdFields[i] : i \in 1..5} |-> _find_col(cols, STANDARD_COLS[std])]

\* mapping[std]: the resolved column name, or std itself for an added column
ColumnsMapped(cols, res) ==
    [std \in DOMAIN res |-> IF res[std] = 0 THEN StdName(std) ELSE cols[res[std]]]

\* the names of df's columns after the resolution loop
DfColumns(cols, res) ==
    {cols[i] : i \in 1..Len(cols)} \cup {StdName(std) : std \in {f \in DOMAIN res : res[f] = 0}}

\* df[mapping[std]] at row r: NaN in an added column, else the cell read
DfCell(t, res, std, r) == IF res[std] = 0 THEN None ELSE t.rows[r][res[std]]

\* str(i) for a row label i >= 0
RECURSIVE IndexStr(_)
IndexStr(i) ==
    IF i < 10 THEN <<Digits[i + 1]>> ELSE Append(IndexStr(i \div 10), Digits[(i % 10) + 1])

\* the "food" series of out: df[mapping["food"]] if that name is a column
\* of df, else the row labels as text
FoodSeries(t, res, r) ==
    IF ColumnsMapped(t.cols, res)["food"] \in DfColumns(t.cols, res)
    THEN DfCell(t, res, "food", r)
    ELSE Some(IndexStr(r - 1))

\* every row of out, before the kcal filter; idx is the row label (0-based)
RawRows(t, res) ==
    [r \in 1..Len(t.rows) |->
        [idx       |-> r - 1,
         food      |-> FoodSeries(t, res, r),
         kcal      |-> _to_number(DfCell(t, res, "kcal", r)),
         protein_g |-> _to_number(DfCell(t, res, "protein_g", r)),
         carbs_g   |-> _to_number(DfCell(t, res, "carbs_g", r)),
         fat_g     |-> _to_number(DfCell(t, res, "fat_g", r))]]

\* a filter that also drops rows with a missing macro
DropNaKcal_AnyNumber(rows) ==
    SelectSeq(rows, LAMBDA x : /\ x.kcal # None /\ x.protein_g # None
                               /\ x.carbs_g # None /\ x.fat_g # None)

\* out.dropna(subset=["kcal"])
DropNaKcal(rows) == SelectSeq(rows, LAMBDA x : x.kcal # None)

\* out[c].fillna(0.0) for the three macro columns
FillNaMacro(v) == IF v = None THEN Some(Zero) ELSE v

\* (macro / kcal.replace(0, NaN)) * 100
Density(m, k) ==
    IF k[1] = Zero THEN None ELSE Some(RMul(RDiv(m[1], k[1]), RInt(100)))

\* a final step that leaves NaN in place
FillNaAll_Keep(v) == v

\* out.replace([inf, -inf], NaN).fillna(0.0), on a numeric cell
FillNaAll(v) == IF v = None THEN Some(Zero) ELSE v

\* the same step on a food cell, followed by astype(str).str.strip():
\* a missing name has become the float 0.0, whose text is "0.0"
FoodText(c) ==
    IF c # None THEN Strip(c[1])
    ELSE IF FillNaAll(None) = None THEN <<"n", "a", "n">> ELSE <<"0", ".", "0">>

NormalizeRow(x) ==
    LET p == FillNaMacro(x.protein_g)
        c == FillNaMacro(x.carbs_g)
        f == FillNaMacro(x.fat_g)
    IN  [idx       |-> x.idx,
         food      |-> FoodText(x.food),
         kcal      |-> FillNaAll(x.kcal),
         protein_g |-> FillNaAll(p),
         carbs_g   |-> FillNaAll(c),
         fat_g     |-> FillNaAll(f),
         protein_per_100kcal |-> FillNaAll(Density(p, x.kcal)),
         carbs_per_100kcal   |-> FillNaAll(Density(c, x.kcal)),
         fat_per_100kcal     |-> FillNaAll(Density(f, x.kcal))]

load_foods(t) ==
    LET res  == Resolve(t.cols)
        out  == RawRows(t, res)
        kept == DropNaKcal(out)
    IN  [rows            |-> [i \in 1..Len(kept) |-> NormalizeRow(kept[i])],
         rows_in         |-> Len(out),
         rows_after_kcal |-> Len(kept),
         columns_mapped  |-> ColumnsMapped(t.cols, res)]

----------------------------------------------------------------------------
(* foods.py: scoring and suggest_meals *)

\* arithmetic on cells that may be NaN
OMul(x, y) == IF x = None \/ y = None THEN None ELSE Some(RMul(x[1], y[1]))
OAdd(x, y) == IF x = None \/ y = None THEN None ELSE Some(RAdd(x[1], y[1]))
ODiv(x, y) ==
    IF x = None \/ y = None THEN None
    ELSE IF y[1] = Zero THEN None
    ELSE Some(RDiv(x[1], y[1]))

\* series.replace(0, NaN)
ZeroToNaN(x) == IF x = Some(Zero) THEN None ELSE x

\* series.fillna(0.0)
FillNa(x) == IF x = None THEN Some(Zero) ELSE x

\* series.round(1): to one decimal, halves to the even digit
Round1(x) == Some(Rat(RoundHalfEven(10 * x[1].n, x[1].d), 10))

\* _goal_ratios: a missing or zero goal takes the default 120 / 200 / 60
_goal_ratios(g) ==
    LET p_k   == RInt(4 * OrDefault(g.protein_g, 120))
        c_k   == RInt(4 * OrDefault(g.carbs_g, 200))
        f_k   == RInt(9 * OrDefault(g.fat_g, 60))
        sum   == RAdd(RAdd(p_k, c_k), f_k)
        total == IF RLeq(RInt(1), sum) THEN sum ELSE RInt(1)
    IN  [gp |-> RDiv(p_k, total), gc |-> RDiv(c_k, total), gf |-> RDiv(f_k, total)]

RSquare(x) == RMul(x, x)

\* ratio_mse of one food against the goal ratios
RatioMse(x, meal_kcal, gr) ==
    LET scale   == ODiv(Some(RInt(meal_kcal)), ZeroToNaN(x.kcal))
        p_kcal  == OMul(OMul(x.protein_g, Some(RInt(4))), scale)
        c_kcal  == OMul(OMul(x.carbs_g, Some(RInt(4))), scale)
        f_kcal  == OMul(OMul(x.fat_g, Some(RInt(9))), scale)
        total_k == ZeroToNaN(OAdd(OAdd(p_kcal, c_kcal), f_kcal))
        rp      == FillNa(ODiv(p_kcal, total_k))[1]
        rc      == FillNa(ODiv(c_kcal, total_k))[1]
        rf      == FillNa(ODiv(f_kcal, total_k))[1]
    IN  RAdd(RAdd(RSquare(RSub(rp, gr.gp)), RSquare(RSub(rc, gr.gc))),
             RSquare(RSub(rf, gr.gf)))

\* kcal_pen of one food
KcalPen(x, meal_kcal) ==
    RDiv(RAbs(RSub(x.kcal[1], RInt(meal_kcal))), RInt(Max(meal_kcal, 1)))

\* the balanced score under every strategy
Score_Balanced(x, meal_kcal, strategy, gr) ==
    RAdd(RatioMse(x, meal_kcal, gr), RMul(Rat(2, 10), KcalPen(x, meal_kcal)))

\* the score of one food under the strategy (lower is better)
Score(x, meal_kcal, strategy, gr) ==
    LET pen == RMul(Rat(2, 10), KcalPen(x, meal_kcal))
    IN  IF strategy = "high_protein" THEN RAdd(RNeg(x.protein_per_100kcal[1]), pen)
        ELSE IF strategy = "low_carb" THEN RAdd(x.carbs_per_100kcal[1], pen)
        ELSE RAdd(RatioMse(x, meal_kcal, gr), pen)

\* estimated grams of a macro m at the meal target
EstGrams(m, x, meal_kcal) ==
    Round1(FillNa(OMul(m, ODiv(Some(RInt(meal_kcal)), ZeroToNaN(x.kcal)))))

FoodCols ==
    {"food", "kcal", "protein_g", "carbs_g", "fat_g",
     "protein_per_100kcal", "carbs_per_100kcal", "fat_per_100kcal"}

\* df.assign(meal_kcal_target=..., est_protein_g=..., ..., score=score)
AssignRow(x, meal_kcal, strategy, gr) ==
    [c \in FoodCols \cup {"meal_kcal_target", "est_protein_g", "est_carbs_g",
                          "est_fat_g", "score"} |->
        CASE c = "meal_kcal_target" -> Some(RInt(meal_kcal))
          [] c = "est_protein_g"    -> EstGrams(x.protein_g, x, meal_kcal)
          [] c = "est_carbs_g"      -> EstGrams(x.carbs_g, x, meal_kcal)
          [] c = "est_fat_g"        -> EstGrams(x.fat_g, x, meal_kcal)
          [] c = "score"            -> Some(Score(x, meal_kcal, strategy, gr))
          [] OTHER                  -> x[c]]

\* insertion that puts x before the first row with a score <= its own
InsertByScore_Descending(s, x) ==
    LET k == Cardinality({i \in 1..Len(s) : ~RLeq(s[i].score[1], x.score[1])})
    IN  SubSeq(s, 1, k) \o <<x>> \o SubSeq(s, k + 1, Len(s))

\* x placed into the score-ordered rows s, after the rows scoring <= x
InsertByScore(s, x) ==
    LET k == Cardinality({i \in 1..Len(s) : RLeq(s[i].score[1], x.score[1])})
    IN  SubSeq(s, 1, k) \o <<x>> \o SubSeq(s, k + 1, Len(s))

\* sort_values("score", ascending=True); equal scores keep their order, as
\* numpy's sort does for the short frames considered here
RECURSIVE SortByScore(_)
SortByScore(rows) ==
    IF rows = <<>> THEN <<>>
    ELSE InsertByScore(SortByScore(SubSeq(rows, 1, Len(rows) - 1)), rows[Len(rows)])

keep_cols == FoodCols \cup {"score"}

\* out[keep]
KeepRow(x) == [c \in keep_cols \cap DOMAIN x |-> x[c]]

\* df.head(n) for n >= 0
HeadRows(rows, n) == SubSeq(rows, 1, Min(n, Len(rows)))

\* a catalog row as a row of columns: the row label is not a column
Columns(x) == [c \in FoodCols |-> x[c]]

suggest_meals(catalog, g, meal_kcal, strategy, topn) ==
    IF catalog = <<>> THEN <<>>
    ELSE LET gr  == _goal_ratios(g)
             out == SortByScore([i \in 1..Len(catalog) |->
                        AssignRow(Columns(catalog[i]), meal_kcal, strategy, gr)])
         IN  HeadRows([i \in 1..Len(out) |-> KeepRow(out[i])], topn)

----------------------------------------------------------------------------
(* utils.py: unit conversion.  Inches and pounds are integers in tenths
   (the UI step is 0.1); centimetres are exact fractions; kilograms are
   counted in units of 10^-9 kg and written in base 10^4 as [hi, lo],
   because 1100 lb is about 5 * 10^11 such units *)

\* CM_PER_IN = 2.54
CM_PER_IN == Rat(254, 100)

\* KG_PER_LB = 0.45359237, as 4535 * 10^4 + 9237 units of 10^-8
KgPerLbHi == 4535
KgPerLbLo == 9237

\* x * 45359237 in base 10^4, for 0 <= x < 200000
BigMulK(x) ==
    LET lo == x * KgPerLbLo
        hi == x * KgPerLbHi
    IN  [hi |-> hi + lo \div 10000, lo |-> lo % 10000]

BigLeq(a, b) == a.hi < b.hi \/ (a.hi = b.hi /\ a.lo <= b.lo)

\* floor(v / 45359237) and the remainder, by trial around the quotient of
\* the leading digits
BigDivK(v) ==
    LET q0 == v.hi \div KgPerLbHi
        q  == CHOOSE c \in Max(0, q0 - 5)..q0 :
                  BigLeq(BigMulK(c), v) /\ ~BigLeq(BigMulK(c + 1), v)
        m  == BigMulK(q)
    IN  [q |-> q, r |-> (v.hi - m.hi) * 10000 + (v.lo - m.lo)]

\* round(kg / KG_PER_LB, 1), in tenths of a pound
RoundLb(kg) ==
    LET d == BigDivK(kg)
        k == KgPerLbHi * 10000 + KgPerLbLo
    IN  IF 2 * d.r < k THEN d.q
        ELSE IF 2 * d.r > k THEN d.q + 1
        ELSE IF d.q % 2 = 0 THEN d.q ELSE d.q + 1

to_metric_from_imperial(ft, inch, lb) ==
    [cm |-> RMul(Rat(ft * 120 + inch, 10), CM_PER_IN),
     kg |-> BigMulK(lb)]

\* inches rounded to a whole number instead of one decimal
RoundInch_Whole(x) == 10 * RoundHalfEven(x.n, x.d)

\* round(x, 1), in tenths of an inch
RoundInch(x) == RoundHalfEven(10 * x.n, x.d)

to_imperial_from_metric(cm, kg) ==
    LET total_in == RDiv(cm, CM_PER_IN)
        ft       == total_in.n \div (12 * total_in.d)
        inch     == RoundInch(RSub(total_in, RInt(ft * 12)))
    IN  [ft |-> ft, inch |-> inch, lb |-> RoundLb(kg)]

----------------------------------------------------------------------------
(* utils.py: the TDEE estimator.  A log row has a date and optional
   kcal_in and weight_kg (tenths of a kg) *)

\* df.dropna(subset=["kcal_in", "weight_kg"]) with a missing value read as 0
DropNaKcalWeight_Fill(df) ==
    [i \in 1..Len(df) |->
        [df[i] EXCEPT !.kcal_in   = IF @ = None THEN Some(0) ELSE @,
                      !.weight_kg = IF @ = None THEN Some(0) ELSE @]]

\* df.dropna(subset=["kcal_in", "weight_kg"])
DropNaKcalWeight(df) ==
    SelectSeq(df, LAMBDA e : e.kcal_in # None /\ e.weight_kg # None)

\* fewest complete rows the estimator accepts
MinTdeeRows == 10

\* window of the rolling sum and mean, and of the look-ahead
TdeeWindow == 7

\* sum of column f over rows i..j
RECURSIVE SumField(_, _, _, _)
SumField(df, f, i, j) ==
    IF j < i THEN 0 ELSE SumField(df, f, i, j - 1) + df[j][f][1]

\* series.rolling(w).sum(): NaN on the first w - 1 rows
RollingSum(df, f, w) ==
    [i \in 1..Len(df) |->
        IF i < w THEN None ELSE Some(RInt(SumField(df, f, i - w + 1, i)))]

\* series.rolling(w).mean() of the weights, in kg
RollingMeanKg(df, w) ==
    [i \in 1..Len(df) |->
        IF i < w THEN None
        ELSE Some(Rat(SumField(df, "weight_kg", i - w + 1, i), 10 * w))]

\* the series left in place, without the look-ahead
ShiftBack_InPlace(col, k) == col

\* the look-ahead with the last value carried on past the end
ShiftBack_Pad(col, k) ==
    [i \in 1..Len(col) |-> col[IF i + k <= Len(col) THEN i + k ELSE Len(col)]]

\* series.shift(-k): row i takes the value of row i + k, NaN past the end
ShiftBack(col, k) ==
    [i \in 1..Len(col) |-> IF i + k <= Len(col) THEN col[i + k] ELSE None]

RECURSIVE RSum(_)
RSum(xs) == IF xs = <<>> THEN Zero ELSE RAdd(Head(xs), RSum(Tail(xs)))

RMin(x, y) == IF RLeq(x, y) THEN x ELSE y
RMax(x, y) == IF RLeq(y, x) THEN x ELSE y

\* the estimate returned without the trust region
ClampTdee_None(x, base) == x

\* max(base * 0.7, min(base * 1.3, x))
ClampTdee(x, base) == RMax(Rat(7 * base, 10), RMin(Rat(13 * base, 10), x))

estimate_tdee_from_logs(df0, base_tdee_guess) ==
    IF Len(df0) = 0 THEN None
    ELSE LET df == DropNaKcalWeight(df0)
         IN  IF Len(df) < MinTdeeRows THEN None
             ELSE LET kcal_in_7d  == RollingSum(df, "kcal_in", TdeeWindow)
                      wt_7d       == RollingMeanKg(df, TdeeWindow)
                      wt_7d_shift == ShiftBack(wt_7d, TdeeWindow)
                      kept == SelectSeq([i \in 1..Len(df) |-> i],
                                  LAMBDA i : /\ kcal_in_7d[i] # None
                                             /\ wt_7d[i] # None
                                             /\ wt_7d_shift[i] # None)
                  IN  IF kept = <<>> THEN None
                      ELSE LET rhs == [j \in 1..Len(kept) |->
                                    LET i       == kept[j]
                                        delta_w == RSub(wt_7d_shift[i][1], wt_7d[i][1])
                                    IN  RSub(kcal_in_7d[i][1], RMul(RInt(7700), delta_w))]
                               seven_tdee == RDiv(RSum(rhs), RInt(Len(rhs)))
                               tdee_est   == ClampTdee(RDiv(seven_tdee, RInt(7)),
                                                       base_tdee_guess)
                           IN  Some(RoundHalfEven(tdee_est.n, tdee_est.d))

----------------------------------------------------------------------------
(* app.py: the handlers that read and write the stored rows *)

\* profiles the "Save Personal Info" form can store (0 is stored as NULL)
HostProfiles ==
    { [sex |-> "female", dob |-> Some([year |-> 2000, month |-> 1, day |-> 1]),
       height_cm |-> Some(1650), weight_kg |-> Some(600), activity_level |-> "light"] }

\* goals the "Save Goals" form can store: six integers within the widget ranges
HostGoalInputs ==
    { [kcal |-> k, protein_g |-> p, carbs_g |-> 200, fat_g |-> 60,
       fiber_g |-> 30, water_ml |-> 2500] :
        <<k, p>> \in {<<2000, 100>>, <<500, 100>>, <<0, 100>>} }

\* records the "Daily record" form can add: the widgets always give numbers
HostLogInputs ==
    { [date |-> d, kcal_in |-> Some(k), protein_g |-> Some(p)] :
        d \in 1..2, <<k, p>> \in {<<2000, 100>>, <<500, 0>>} }

HostScenarios == {"fat_loss", "maintenance", "muscle_gain"}

\* db.get_logs (ORDER BY date) and logs_to_df (sort_values("date")):
\* the new row goes after every row with the same or an earlier date
InsertByDate(df, e) ==
    LET k == Cardinality({i \in 1..Len(df) : df[i].date <= e.date})
    IN  SubSeq(df, 1, k) \o <<e>> \o SubSeq(df, k + 1, Len(df))

\* the adjustment applied without the 1000 kcal floor
AdjustedKcal_NoFloor(k, adj) == k + adj

\* new_kcal of the "Suggested Adjustment" handler
AdjustedKcal(k, adj) == Max(1000, k + adj)

\* the macros alone, without the stored goals they are merged into
MergeMacros_Replace(g, m) ==
    [NoGoals EXCEPT !.protein_g = Some(m.protein_g), !.fat_g = Some(m.fat_g),
                    !.carbs_g = Some(m.carbs_g)]

\* {**g, **macros}
MergeMacros(g, m) ==
    [g EXCEPT !.protein_g = Some(m.protein_g), !.fat_g = Some(m.fat_g),
              !.carbs_g = Some(m.carbs_g)]

\* {**g, "kcal": new_kcal}
MergeKcal(g, k) == [g EXCEPT !.kcal = Some(k)]

NoOp == [op |-> "none", before |-> NoGoals, res |-> None, adj |-> 0]

HostUnchanged == UNCHANGED <<pc, args, ret, table, foods, recs, today>>

\* "Save Personal Info"
SavePersonalInfo ==
    /\ pc = "host"
    /\ \E p \in HostProfiles : profile' = p
    /\ last' = [NoOp EXCEPT !.op = "save_profile", !.before = goals]
    /\ UNCHANGED <<goals, logs>>
    /\ HostUnchanged

\* "Auto-generate Goals from Data"
AutoGenerateGoals ==
    /\ pc = "host"
    /\ goals' = upsert_goals(GoalsRow(auto_goals(profile)))
    /\ last' = [NoOp EXCEPT !.op = "auto_goals", !.before = goals]
    /\ UNCHANGED <<profile, logs>>
    /\ HostUnchanged

\* "Save Goals"
SaveGoals ==
    /\ pc = "host"
    /\ \E g \in HostGoalInputs : goals' = upsert_goals(GoalsRow(g))
    /\ last' = [NoOp EXCEPT !.op = "save_goals", !.before = goals]
    /\ UNCHANGED <<profile, logs>>
    /\ HostUnchanged

\* "Add record"
AddRecord ==
    /\ pc = "host"
    /\ Len(logs) < MaxHostLogs
    /\ \E e \in HostLogInputs : logs' = InsertByDate(logs, e)
    /\ last' = [NoOp EXCEPT !.op = "add_record", !.before = goals]
    /\ UNCHANGED <<profile, goals>>
    /\ HostUnchanged

\* "Generate Macro Recommendations"
GenerateMacro ==
    /\ pc = "host"
    /\ \E goal \in HostScenarios :
         LET cur      == IF goals.row THEN goals ELSE GoalsRow(auto_goals(profile))
             kcal_now == OrDefault(cur.kcal, 2000)
             macros   == recommended_macros(profile, kcal_now, goal)
         IN  goals' = upsert_goals(MergeMacros(goals, macros))
    /\ last' = [NoOp EXCEPT !.op = "macro_apply", !.before = goals]
    /\ UNCHANGED <<profile, logs>>
    /\ HostUnchanged

\* "Suggested Adjustment"
SuggestedAdjustment ==
    /\ pc = "host"
    /\ LET res == adherence_tune(logs, goals)
       IN  IF res # None /\ res[1].kcal_adjust # 0
           THEN LET new_kcal == AdjustedKcal(_ival(goals.kcal, 2000), res[1].kcal_adjust)
                IN  /\ goals' = upsert_goals(MergeKcal(goals, new_kcal))
                    /\ last' = [op |-> "adherence_apply", before |-> goals,
                                res |-> res, adj |-> res[1].kcal_adjust]
           ELSE /\ goals' = goals
                /\ last' = [op |-> IF res = None THEN "adherence_none" ELSE "adherence_keep",
                            before |-> goals, res |-> res, adj |-> 0]
    /\ UNCHANGED <<profile, logs>>
    /\ HostUnchanged

Init ==
    /\ pc = "host"
    /\ today = StartDate
    /\ profile = NewProfile
    /\ goals = NoGoals
    /\ logs = <<>>
    /\ last = NoOp
    /\ args = None
    /\ ret = None
    /\ table = None
    /\ foods = None
    /\ recs = None

Next ==
    \/ SavePersonalInfo
    \/ AutoGenerateGoals
    \/ SaveGoals
    \/ AddRecord
    \/ GenerateMacro
    \/ SuggestedAdjustment

Spec == Init /\ [][Next]_vars

\* C1: the kcal goal written by an adherence application is
\* max(1000, previous kcal + kcal_adjust), hence never below 1000
C1_AdherenceFloor ==
    last.op = "adherence_apply" =>
        /\ last.before.kcal # None
        /\ goals.kcal # None
        /\ goals.kcal[1] >= 1000
        /\ \/ goals.kcal[1] = last.before.kcal[1] + last.adj
           \/ (goals.kcal[1] = 1000 /\ last.before.kcal[1] + last.adj < 1000)

\* an application that lowered a goal of less than 1100 kcal and hit the floor
C1_Witness ==
    /\ last.op = "adherence_apply"
    /\ last.adj = -100
    /\ last.before.kcal[1] + last.adj < 1000
    /\ goals.kcal = Some(1000)

\* C14: a macro application changes at most protein_g, fat_g and carbs_g of
\* the stored goals and leaves kcal, fiber_g and water_ml as they were; an
\* adherence application changes kcal only
C14_ApplyFrame ==
    /\ last.op = "macro_apply" =>
          /\ goals.kcal = last.before.kcal
          /\ goals.fiber_g = last.before.fiber_g
          /\ goals.water_ml = last.before.water_ml
    /\ last.op = "adherence_apply" =>
          /\ goals.protein_g = last.before.protein_g
          /\ goals.carbs_g = last.before.carbs_g
          /\ goals.fat_g = last.before.fat_g
          /\ goals.fiber_g = last.before.fiber_g
          /\ goals.water_ml = last.before.water_ml

\* a macro application on saved goals: the three macros are replaced and the
\* saved kcal, fiber_g and water_ml are still there
C14_Witness ==
    /\ last.op = "macro_apply"
    /\ last.before.row
    /\ goals.protein_g # last.before.protein_g
    /\ goals.fat_g # last.before.fat_g
    /\ goals.carbs_g # last.before.carbs_g
    /\ goals.kcal = Some(2000)
    /\ goals.fiber_g = Some(30)
    /\ goals.water_ml = Some(2500)

----------------------------------------------------------------------------
(* adherence_tune as a function of a log history and a goals record *)

\* log rows by what they record: both fields, or one of them missing (NaN)
LogKinds ==
    { [kcal_in |-> Some(2000), protein_g |-> Some(100)],
      [kcal_in |-> None,       protein_g |-> Some(100)],
      [kcal_in |-> Some(2000), protein_g |-> None] }

\* date-ordered histories of at most MaxLogs rows; the date is the position
LogHistories ==
    UNION { { [i \in 1..k |-> [date |-> i, kcal_in |-> f[i].kcal_in,
                                protein_g |-> f[i].protein_g]] :
                f \in [1..k -> LogKinds] } : k \in 0..MaxLogs }

\* goals records the host can hold: no row, a row written by the macro merge
\* before any kcal was stored (kcal NULL), rows saved with 0, complete rows
GoalCases ==
    { NoGoals,
      [NoGoals EXCEPT !.row = TRUE, !.protein_g = Some(108), !.fat_g = Some(66),
                      !.carbs_g = Some(243)],
      [NoGoals EXCEPT !.row = TRUE, !.kcal = Some(2000)],
      GoalsRow([kcal |-> 0, protein_g |-> 100, carbs_g |-> 200, fat_g |-> 60,
                fiber_g |-> 30, water_ml |-> 2500]),
      GoalsRow([kcal |-> 2000, protein_g |-> 0, carbs_g |-> 200, fat_g |-> 60,
                fiber_g |-> 30, water_ml |-> 2500]),
      GoalsRow([kcal |-> 2000, protein_g |-> 100, carbs_g |-> 200, fat_g |-> 60,
                fiber_g |-> 30, water_ml |-> 2500]),
      GoalsRow([kcal |-> 1000, protein_g |-> 120, carbs_g |-> 200, fat_g |-> 60,
                fiber_g |-> 30, water_ml |-> 2500]) }

InitAdherence ==
    /\ pc = "adherence_call"
    /\ today = StartDate
    /\ logs \in LogHistories
    /\ goals \in GoalCases
    /\ profile = NewProfile
    /\ last = NoOp
    /\ args = None
    /\ ret = None
    /\ table = None
    /\ foods = None
    /\ recs = None

CallAdherenceTune ==
    /\ pc = "adherence_call"
    /\ ret' = adherence_tune(logs, goals)
    /\ pc' = "adherence_done"
    /\ UNCHANGED <<profile, goals, logs, last, args, table, foods, recs, today>>

NextAdherence == CallAdherenceTune

SpecAdherence == InitAdherence /\ [][NextAdherence]_vars

\* the rows among the last TailN that record both kcal_in and protein_g
CompleteInWindow ==
    { i \in 1..Len(logs) : /\ i > Len(logs) - TailN
                           /\ logs[i].kcal_in # None
                           /\ logs[i].protein_g # None }

\* C2 as stated: no result exactly when no row of the window is complete or
\* the goals have no kcal or no protein_g value
C2_NoResultIffLacking ==
    pc = "adherence_done" =>
        (ret = None <=> \/ CompleteInWindow = {}
                        \/ goals.kcal = None
                        \/ goals.protein_g = None)

\* C2 amended: no result exactly when no row of the window is complete or
\* the kcal or protein_g target is absent or 0; otherwise a result with
\* kcal_rate, protein_rate and kcal_adjust
C2_NoResultIffLackingOrZero ==
    pc = "adherence_done" =>
        /\ ret = None <=> \/ CompleteInWindow = {}
                          \/ goals.kcal = None \/ goals.kcal = Some(0)
                          \/ goals.protein_g = None \/ goals.protein_g = Some(0)
        /\ ret # None => DOMAIN ret[1] = {"kcal_rate", "protein_rate", "kcal_adjust"}

\* a history longer than the window whose only complete rows are older than
\* the window: no result although complete rows and targets exist
C2_Witness ==
    /\ pc = "adherence_done"
    /\ Len(logs) > TailN
    /\ CompleteInWindow = {}
    /\ logs[1].kcal_in # None /\ logs[1].protein_g # None
    /\ Truthy(goals.kcal) /\ Truthy(goals.protein_g)
    /\ ret = None

----------------------------------------------------------------------------
(* recommended_macros as a function of weight, kcal and scenario *)

MacroWeights == {None, Some(0), Some(1), Some(25), Some(700), Some(5000)}
MacroKcals == {0, 1, 100, 500, 1000, 2000, 8000}
MacroScenarios == {"fat_loss", "maintenance", "muscle_gain", "bulk"}

InitMacros ==
    /\ pc = "macros_call"
    /\ today = StartDate
    /\ args \in [weight_kg : MacroWeights, kcal : MacroKcals, goal : MacroScenarios]
    /\ ret = None
    /\ profile = NewProfile
    /\ goals = NoGoals
    /\ logs = <<>>
    /\ last = NoOp
    /\ table = None
    /\ foods = None
    /\ recs = None

CallRecommendedMacros ==
    /\ pc = "macros_call"
    /\ ret' = recommended_macros([NewProfile EXCEPT !.weight_kg = args.weight_kg],
                                 args.kcal, args.goal)
    /\ pc' = "macros_done"
    /\ UNCHANGED <<profile, goals, logs, last, args, table, foods, recs, today>>

NextMacros == CallRecommendedMacros

SpecMacros == InitMacros /\ [][NextMacros]_vars

\* C3: recommended_macros returns no negative grams for weight >= 0,
\* kcal >= 0 and any scenario name
C3_MacrosNonNegative ==
    pc = "macros_done" =>
        ret.protein_g >= 0 /\ ret.fat_g >= 0 /\ ret.carbs_g >= 0

\* protein and fat alone exceed the kcal budget, so carbs were clamped to 0
C3_Witness ==
    /\ pc = "macros_done"
    /\ args.goal = "bulk"
    /\ 4 * ret.protein_g + 9 * ret.fat_g > args.kcal + 3
    /\ ret.carbs_g = 0


\* 4 * protein_g + 9 * fat_g + 4 * carbs_g of the returned macros
MacroEnergy == 4 * ret.protein_g + 9 * ret.fat_g + 4 * ret.carbs_g

\* C30: when carbs_g > 0 is returned, the energy of the returned macros is
\* at most kcal and at least kcal - 3
C30_EnergyWithinBudget ==
    (pc = "macros_done" /\ ret.carbs_g > 0) =>
        (args.kcal - 3 <= MacroEnergy /\ MacroEnergy <= args.kcal)

\* 2000 kcal for 70 kg under fat_loss: 126 g, 66 g and 225 g carry 1998 kcal
C30_Witness ==
    /\ pc = "macros_done"
    /\ args.kcal = 2000
    /\ args.weight_kg = Some(700)
    /\ args.goal = "fat_loss"
    /\ ret.carbs_g = 225
    /\ MacroEnergy = 1998

\* protein, fat and carbohydrate grams by the formulas of the recommender
\* for a weight w in tenths of a kg
MacrosByFormula(w) ==
    LET f == CASE args.goal = "muscle_gain" -> 20
               [] args.goal = "fat_loss"    -> 18
               [] OTHER                     -> 16
        r == CASE args.goal = "muscle_gain" -> 25
               [] args.goal = "fat_loss"    -> 30
               [] OTHER                     -> 28
        left == args.kcal - (4 * ret.protein_g + 9 * ret.fat_g)
    IN  /\ 2 * Abs(100 * ret.protein_g - f * w) <= 100
        /\ 900 * ret.fat_g <= r * args.kcal
        /\ r * args.kcal < 900 * (ret.fat_g + 1)
        /\ IF left < 0 THEN ret.carbs_g = 0
           ELSE 4 * ret.carbs_g <= left /\ left < 4 * (ret.carbs_g + 1)

\* the example: 70 kg, 2000 kcal, fat_loss gives 126 / 66 / 225
MacrosExample ==
    (args = [weight_kg |-> Some(700), kcal |-> 2000, goal |-> "fat_loss"]) =>
        ret = [protein_g |-> 126, fat_g |-> 66, carbs_g |-> 225]

\* C18 as stated: protein_g = round(factor * weight), fat_g =
\* floor(ratio * kcal / 9), carbs_g = max(0, floor((kcal - 4 protein_g -
\* 9 fat_g) / 4)), with weight 70 when the weight is absent
C18_MacroFormulas ==
    pc = "macros_done" =>
        /\ MacrosByFormula(IF args.weight_kg = None THEN 700 ELSE args.weight_kg[1])
        /\ MacrosExample

\* C18 amended: the same formulas, with weight 70 when the weight is absent
\* or 0
C18_MacroFormulasZeroDefault ==
    pc = "macros_done" =>
        /\ MacrosByFormula(IF args.weight_kg = None \/ args.weight_kg = Some(0)
                           THEN 700 ELSE args.weight_kg[1])
        /\ MacrosExample

\* the example of the claim
C18_Witness ==
    /\ pc = "macros_done"
    /\ args = [weight_kg |-> Some(700), kcal |-> 2000, goal |-> "fat_loss"]
    /\ ret = [protein_g |-> 126, fat_g |-> 66, carbs_g |-> 225]

----------------------------------------------------------------------------
(* auto_goals as a function of the profile *)

GoalSexes == {"unset", "male", "female", "other"}
GoalDobs ==
    { None,
      Some([year |-> 2000, month |-> 1, day |-> 1]),
      Some([year |-> 2000, month |-> 12, day |-> 31]),
      Some([year |-> 2025, month |-> 1, day |-> 1]),
      Some([year |-> 1925, month |-> 6, day |-> 15]),
      Some([year |-> 2030, month |-> 1, day |-> 1]),
      Some([year |-> 2000, month |-> 13, day |-> 1]) }
GoalHeights == {None, Some(0), Some(300), Some(1650), Some(3000)}
GoalWeights == {None, Some(0), Some(50), Some(600), Some(5000)}
GoalActivities == {"unset", "sedentary", "light", "moderate", "active", "athlete"}

InitGoals ==
    /\ pc = "goals_call"
    /\ today = StartDate
    /\ args \in [sex : GoalSexes, dob : GoalDobs, height_cm : GoalHeights,
                 weight_kg : GoalWeights, activity_level : GoalActivities]
    /\ ret = None
    /\ profile = NewProfile
    /\ goals = NoGoals
    /\ logs = <<>>
    /\ last = NoOp
    /\ table = None
    /\ foods = None
    /\ recs = None

CallAutoGoals ==
    /\ pc = "goals_call"
    /\ ret' = auto_goals(args)
    /\ pc' = "goals_done"
    /\ UNCHANGED <<profile, goals, logs, last, args, table, foods, recs, today>>

NextGoals == CallAutoGoals

SpecGoals == InitGoals /\ [][NextGoals]_vars

\* C4: for every valid profile auto_goals returns kcal > 0 and
\* protein_g, carbs_g, fat_g >= 0
C4_BaselinePositive ==
    pc = "goals_done" =>
        ret.kcal > 0 /\ ret.protein_g >= 0 /\ ret.carbs_g >= 0 /\ ret.fat_g >= 0

\* x is n / d cut to a whole number, the fraction dropped (d > 0)
IsTruncation(x, n, d) ==
    IF n >= 0 THEN d * x <= n /\ n < d * (x + 1)
    ELSE d * x >= n /\ n > d * (x - 1)

\* x is the floor of n / d (d > 0)
IsFloor(x, n, d) == d * x <= n /\ n < d * (x + 1)

\* 8000 * BMR * multiplier for weight w and height h in tenths and age a
BmrTimesFactor(w, h, a) ==
    LET sexTerm == IF args.sex = "male" THEN 5
                   ELSE IF args.sex = "female" THEN -161 ELSE 0
        mult == CASE args.activity_level = "sedentary" -> 1200
                  [] args.activity_level = "moderate"  -> 1550
                  [] args.activity_level = "active"    -> 1725
                  [] OTHER                             -> 1375
    IN  (8 * w + 5 * h - 40 * a + 8 * sexTerm) * mult

\* the example: female, 60 kg, 165 cm, age 25, light gives 1849 kcal
GoalsExample ==
    (/\ args.sex = "female" /\ args.weight_kg = Some(600) /\ args.height_cm = Some(1650)
     /\ parse_age(args.dob) = Some(25) /\ args.activity_level = "light")
        => ret.kcal = 1849

\* C19 as stated: kcal = floor(BMR * multiplier) with the defaults 70 kg,
\* 170 cm, age 25 for absent fields, the macros by floor from kcal
C19_GoalFormulas ==
    pc = "goals_done" =>
        LET w == IF args.weight_kg = None THEN 700 ELSE args.weight_kg[1]
            h == IF args.height_cm = None THEN 1700 ELSE args.height_cm[1]
            a == IF parse_age(args.dob) = None THEN 25 ELSE parse_age(args.dob)[1]
        IN  /\ DOMAIN ret = GoalKeys
            /\ IsFloor(ret.kcal, BmrTimesFactor(w, h, a), 8000)
            /\ IsFloor(ret.protein_g, 25 * ret.kcal, 400)
            /\ IsFloor(ret.carbs_g, 45 * ret.kcal, 400)
            /\ IsFloor(ret.fat_g, 30 * ret.kcal, 900)
            /\ ret.fiber_g = 25 /\ ret.water_ml = 2000
            /\ GoalsExample

\* C19 amended: the defaults also replace a weight, height or age of 0, and
\* kcal and the macros are cut toward zero
C19_GoalFormulasTruncated ==
    pc = "goals_done" =>
        LET w == IF args.weight_kg = None \/ args.weight_kg = Some(0)
                 THEN 700 ELSE args.weight_kg[1]
            h == IF args.height_cm = None \/ args.height_cm = Some(0)
                 THEN 1700 ELSE args.height_cm[1]
            a == IF parse_age(args.dob) = None \/ parse_age(args.dob) = Some(0)
                 THEN 25 ELSE parse_age(args.dob)[1]
        IN  /\ DOMAIN ret = GoalKeys
            /\ IsTruncation(ret.kcal, BmrTimesFactor(w, h, a), 8000)
            /\ IsTruncation(ret.protein_g, 25 * ret.kcal, 400)
            /\ IsTruncation(ret.carbs_g, 45 * ret.kcal, 400)
            /\ IsTruncation(ret.fat_g, 30 * ret.kcal, 900)
            /\ ret.fiber_g = 25 /\ ret.water_ml = 2000
            /\ GoalsExample

\* the example of the claim
C19_Witness ==
    /\ pc = "goals_done"
    /\ args.sex = "female" /\ args.weight_kg = Some(600) /\ args.height_cm = Some(1650)
    /\ parse_age(args.dob) = Some(25) /\ args.activity_level = "light"
    /\ ret = [kcal |-> 1849, protein_g |-> 115, carbs_g |-> 208, fat_g |-> 61,
              fiber_g |-> 25, water_ml |-> 2000]

----------------------------------------------------------------------------
(* load_foods and suggest_meals on raw tables, as app.py chains them *)

MaxRows == 3          \* most rows of a raw food table

\* headers: every field named; no food and no carbs column; no kcal column
FoodHeaders ==
    { <<<<"F", "o", "o", "d">>, <<"C", "a", "l", "o", "r", "i", "e", "s">>, <<"P", "r", "o", "t", "e", "i", "n">>, <<"C", "a", "r", "b", "s">>, <<"F", "a", "t">>>>,
      <<<<"i", "d">>, <<"k", "c", "a", "l">>, <<"p", "r", "o", "t", "e", "i", "n", " ", "(", "g", ")">>, <<"c", "a", "r", "b", "s", "_", "g">>, <<"f", "a", "t">>>>,
      <<<<" ", "N", "a", "m", "e", " ">>, <<"e", "n", "e", "r", "g", "y">>, <<"p", "r", "o", "t", "e", "i", "n">>, <<"c", "a", "r", "b">>, <<"f", "a", "t", "_", "g">>>> }

\* rows: cells are text as read from the CSV, None for an empty cell
FoodRowSamples ==
    { <<Some(<<" ", "C", "h", "i", "c", "k", "e", "n", " ">>), Some(<<"1", "6", "5">>), Some(<<"3", "0">>), Some(<<"0">>), Some(<<"5">>)>>,
      <<Some(<<"R", "i", "c", "e">>), Some(<<"1", ",", "2", "0", "0", " ", "k", "c", "a", "l">>), Some(<<"1", "2", "g">>), Some(<<"1", "3", "2">>), None>>,
      <<None, Some(<<"0">>), Some(<<"1">>), Some(<<" ">>), Some(<<"0", ".", "0">>)>>,
      <<Some(<<"N", "u", "t", "s">>), Some(<<"a", "b", "c">>), Some(<<"5">>), Some(<<"5">>), Some(<<"5">>)>>,
      <<Some(<<"O", "i", "l">>), Some(<<"-", "5">>), Some(<<"1", ".", "5">>), Some(<<"x">>), None>>,
      <<Some(<<" ">>), None, Some(<<"2", "0">>), Some(<<"2", "0">>), Some(<<"5", "0">>)>> }

FoodTables ==
    { [cols |-> h, rows |-> rs] :
        h \in FoodHeaders,
        rs \in UNION { [1..k -> FoodRowSamples] : k \in 0..MaxRows } }

\* goals given to the ranker: no stored values (every default applies) and
\* a goal of equal energy shares
SuggestGoals ==
    { NoGoals,
      GoalsRow([kcal |-> 1800, protein_g |-> 45, carbs_g |-> 45, fat_g |-> 20,
                fiber_g |-> 25, water_ml |-> 2000]) }

SuggestInputs ==
    { [goals |-> g, meal_kcal |-> m, strategy |-> s, topn |-> n] :
        g \in SuggestGoals, m \in {600}, s \in {"balanced", "high_protein", "low_carb"},
        n \in 0..2 }
      \cup
    { [goals |-> NoGoals, meal_kcal |-> 0, strategy |-> s, topn |-> 3] :
        s \in {"balanced", "other"} }

InitFoods ==
    /\ pc = "load"
    /\ today = StartDate
    /\ table \in FoodTables
    /\ foods = None
    /\ recs = None
    /\ args = None
    /\ ret = None
    /\ profile = NewProfile
    /\ goals = NoGoals
    /\ logs = <<>>
    /\ last = NoOp

\* food_df = load_foods(uploaded)
LoadFoods ==
    /\ pc = "load"
    /\ foods' = load_foods(table)
    /\ pc' = "loaded"
    /\ UNCHANGED <<profile, goals, logs, last, args, ret, table, recs, today>>

\* recs = suggest_meals(food_df, goals_now, meal_kcal, strategy, topn)
SuggestMeals ==
    /\ pc = "loaded"
    /\ \E a \in SuggestInputs :
         /\ args' = a
         /\ recs' = suggest_meals(foods.rows, a.goals, a.meal_kcal, a.strategy, a.topn)
    /\ pc' = "suggested"
    /\ UNCHANGED <<profile, goals, logs, last, ret, table, foods, today>>

NextFoods == LoadFoods \/ SuggestMeals

SpecFoods == InitFoods /\ [][NextFoods]_vars

\* the kcal cell of raw row r, None when no column resolves to kcal
KcalCell(r) ==
    IF _find_col(table.cols, STANDARD_COLS["kcal"]) = 0 THEN None
    ELSE table.rows[r][_find_col(table.cols, STANDARD_COLS["kcal"])]

\* a cell has an extractable number when its text contains a digit
HasNumber(c) == c # None /\ \E i \in 1..Len(c[1]) : IsDigit(c[1][i])

RetainedLabels == { foods.rows[i].idx : i \in 1..Len(foods.rows) }

\* C7: a row is dropped iff its kcal cell has no extractable number;
\* rows_in counts the input rows, rows_after_kcal the returned rows and
\* rows_after_kcal <= rows_in; missing macros never drop a row
C7_DropsExactlyRowsWithoutKcal ==
    pc \in {"loaded", "suggested"} =>
        /\ RetainedLabels = { r - 1 : r \in { q \in 1..Len(table.rows) : HasNumber(KcalCell(q)) } }
        /\ Cardinality(RetainedLabels) = Len(foods.rows)
        /\ foods.rows_in = Len(table.rows)
        /\ foods.rows_after_kcal = Len(foods.rows)
        /\ foods.rows_after_kcal <= foods.rows_in

\* one row kept although its fat cell is empty, another one dropped
C7_Witness ==
    /\ pc \in {"loaded", "suggested"}
    /\ foods.rows_after_kcal < foods.rows_in
    /\ \E i \in 1..Len(foods.rows) :
           /\ _find_col(table.cols, STANDARD_COLS["fat_g"]) # 0
           /\ table.rows[foods.rows[i].idx + 1][_find_col(table.cols, STANDARD_COLS["fat_g"])] = None
           /\ foods.rows[i].fat_g = Some(Zero)

\* C8: every retained row has a finite kcal >= 0
C8_KcalNonNegative ==
    pc \in {"loaded", "suggested"} =>
        \A i \in 1..Len(foods.rows) :
            foods.rows[i].kcal # None /\ foods.rows[i].kcal[1].n >= 0

\* density d of macro m for kcal k: finite, m / k * 100 or 0 for k = 0
DensityOk(d, m, k) ==
    /\ d # None /\ m # None /\ k # None
    /\ IF k[1].n = 0 THEN d[1] = Zero
       ELSE d[1].n * k[1].n * m[1].d = 100 * m[1].n * d[1].d * k[1].d

\* C9: the three densities of every retained row are finite and equal
\* macro_g / kcal * 100 when kcal # 0 and 0.0 when kcal = 0
C9_DensitiesFinite ==
    pc \in {"loaded", "suggested"} =>
        \A i \in 1..Len(foods.rows) :
            LET x == foods.rows[i]
            IN  /\ DensityOk(x.protein_per_100kcal, x.protein_g, x.kcal)
                /\ DensityOk(x.carbs_per_100kcal, x.carbs_g, x.kcal)
                /\ DensityOk(x.fat_per_100kcal, x.fat_g, x.kcal)

\* a retained row with kcal = 0 and protein > 0, whose density is 0
C9_Witness ==
    /\ pc \in {"loaded", "suggested"}
    /\ \E i \in 1..Len(foods.rows) :
           /\ foods.rows[i].kcal = Some(Zero)
           /\ foods.rows[i].protein_g # Some(Zero)
           /\ foods.rows[i].protein_per_100kcal = Some(Zero)

\* the text of a raw food cell, empty for an empty cell
CellText(c) == IF c = None THEN <<>> ELSE c[1]

\* C10: without a food-name column the name of a retained row is its
\* row index as text; with one, it is the cell text stripped
C10_FoodNameOrIndex ==
    pc \in {"loaded", "suggested"} =>
        \A i \in 1..Len(foods.rows) :
            LET x == foods.rows[i]
                col == _find_col(table.cols, STANDARD_COLS["food"])
            IN  IF col = 0 THEN x.food = IndexStr(x.idx)
                ELSE x.food = Strip(CellText(table.rows[x.idx + 1][col]))

\* C5: suggest_meals returns at most topn rows, in non-decreasing order of
\* score, and an empty result for an empty catalog
C5_TopnSortedEmpty ==
    pc = "suggested" =>
        /\ Len(recs) <= args.topn
        /\ \A i \in 1..(Len(recs) - 1) : RLeq(recs[i].score[1], recs[i + 1].score[1])
        /\ foods.rows = <<>> => recs = <<>>

\* three foods ranked for topn = 2: the last food of the catalog comes
\* first and the two returned scores differ
C5_Witness ==
    /\ pc = "suggested"
    /\ Len(foods.rows) = 3
    /\ args.topn = 2
    /\ Len(recs) = 2
    /\ recs[1].score # recs[2].score
    /\ recs[1].kcal = foods.rows[3].kcal
    /\ recs[1].kcal # foods.rows[1].kcal

\* C6: every returned suggestion carries meal_kcal_target and the three
\* estimated gram values next to the food row and its score
C6_SuggestionCarriesEstimates ==
    pc = "suggested" =>
        \A i \in 1..Len(recs) :
            /\ {"meal_kcal_target", "est_protein_g", "est_carbs_g", "est_fat_g", "score"}
                   \subseteq DOMAIN recs[i]
            /\ recs[i].meal_kcal_target = Some(RInt(args.meal_kcal))
            /\ recs[i].kcal = Some(Zero) =>
                   /\ recs[i].est_protein_g = Some(Zero)
                   /\ recs[i].est_carbs_g = Some(Zero)
                   /\ recs[i].est_fat_g = Some(Zero)

\* the shares of 4 * protein_g, 4 * carbs_g and 9 * fat_g in their sum for a
\* returned food x; (0, 0, 0) when its kcal is 0 or the three are all 0
MacroEnergyRatios(x) ==
    LET p == RMul(RInt(4), x.protein_g[1])
        c == RMul(RInt(4), x.carbs_g[1])
        f == RMul(RInt(9), x.fat_g[1])
        t == RAdd(RAdd(p, c), f)
    IN  IF x.kcal[1] = Zero \/ t = Zero THEN <<Zero, Zero, Zero>>
        ELSE <<RDiv(p, t), RDiv(c, t), RDiv(f, t)>>

\* the score of a returned food x whose macro ratios are r, by the three
\* formulas: ratio_mse, -protein_per_100kcal or carbs_per_100kcal, plus
\* 0.2 * |kcal - meal_kcal| / max(meal_kcal, 1)
ScoreByFormula(x, r) ==
    LET gr  == _goal_ratios(args.goals)
        pen == RMul(Rat(2, 10),
                    RDiv(RAbs(RSub(x.kcal[1], RInt(args.meal_kcal))),
                         RInt(IF args.meal_kcal >= 1 THEN args.meal_kcal ELSE 1)))
        mse == RAdd(RAdd(RMul(RSub(r[1], gr.gp), RSub(r[1], gr.gp)),
                         RMul(RSub(r[2], gr.gc), RSub(r[2], gr.gc))),
                    RMul(RSub(r[3], gr.gf), RSub(r[3], gr.gf)))
    IN  CASE args.strategy = "high_protein" -> RAdd(RNeg(x.protein_per_100kcal[1]), pen)
          [] args.strategy = "low_carb"     -> RAdd(x.carbs_per_100kcal[1], pen)
          [] OTHER                          -> RAdd(mse, pen)

\* C23 as stated: under each of the three strategies the score of every
\* returned food follows the formulas, with the food's own macro-energy
\* ratios in ratio_mse
C23_ScoreFormulas ==
    (pc = "suggested" /\ args.strategy \in {"balanced", "high_protein", "low_carb"}) =>
        \A i \in 1..Len(recs) :
            recs[i].score = Some(ScoreByFormula(recs[i], MacroEnergyRatios(recs[i])))

\* C23 amended: the same, except that the ratios in ratio_mse are those of
\* the food scaled by meal_kcal / kcal, which are (0, 0, 0) for every food
\* when meal_kcal is 0
C23_ScoreFormulasScaled ==
    (pc = "suggested" /\ args.strategy \in {"balanced", "high_protein", "low_carb"}) =>
        \A i \in 1..Len(recs) :
            recs[i].score =
                Some(ScoreByFormula(recs[i],
                        IF args.meal_kcal = 0 THEN <<Zero, Zero, Zero>>
                        ELSE MacroEnergyRatios(recs[i])))

\* a balanced ranking for a 600 kcal meal that returns a food with kcal = 0,
\* scored with ratios (0, 0, 0), and a food with kcal and macros, whose
\* ratios are not all 0
C23_Witness ==
    /\ pc = "suggested"
    /\ args.strategy = "balanced"
    /\ args.meal_kcal = 600
    /\ \E i, j \in 1..Len(recs) :
           /\ recs[i].kcal = Some(Zero)
           /\ recs[i].protein_g # Some(Zero)
           /\ recs[i].score = Some(ScoreByFormula(recs[i], <<Zero, Zero, Zero>>))
           /\ recs[j].kcal # Some(Zero)
           /\ MacroEnergyRatios(recs[j]) # <<Zero, Zero, Zero>>
           /\ recs[j].score = Some(ScoreByFormula(recs[j], MacroEnergyRatios(recs[j])))

----------------------------------------------------------------------------
(* estimate_tdee_from_logs as a function of a log history and a baseline *)

MaxTdeeLogs == 16     \* longest log history given to the TDEE estimator

TdeeKcalPatterns == {"flat", "fasting", "feast", "spike", "late"}

\* kcal_in recorded on row i
KcalAt(p, i) ==
    CASE p = "flat"    -> 2000
      [] p = "fasting" -> 0
      [] p = "feast"   -> 10000
      [] p = "spike"   -> IF i = 7 THEN 10000 ELSE 2000
      [] OTHER         -> IF i > 9 THEN 3000 ELSE 1500

TdeeWeightPatterns == {"flat", "gain", "loss", "swing", "jump", "drop"}

\* weight recorded on row i, in tenths of a kg (the form allows 0..500 kg)
WeightAt(p, i) ==
    CASE p = "flat"  -> 700
      [] p = "gain"  -> 700 + i
      [] p = "loss"  -> 700 - 5 * i
      [] p = "swing" -> IF i % 2 = 0 THEN 0 ELSE 5000
      [] p = "jump"  -> IF i <= 7 THEN 0 ELSE 5000
      [] OTHER       -> IF i <= 7 THEN 5000 ELSE 0

TdeeMissingPatterns ==
    {"none", "kcal_odd", "weight_first3", "weight_4th", "kcal_after9", "last"}

HasKcal(p, i, n) ==
    CASE p = "kcal_odd"    -> i % 2 = 0
      [] p = "kcal_after9" -> i <= 9
      [] p = "last"        -> i < n
      [] OTHER             -> TRUE

HasWeight(p, i, n) ==
    CASE p = "weight_first3" -> i > 3
      [] p = "weight_4th"    -> i % 4 # 0
      [] p = "last"          -> i < n
      [] OTHER               -> TRUE

\* date-ordered histories of at most MaxTdeeLogs rows; the date is the position
TdeeHistories ==
    { [i \in 1..n |->
          [date      |-> i,
           kcal_in   |-> IF HasKcal(m, i, n) THEN Some(KcalAt(k, i)) ELSE None,
           weight_kg |-> IF HasWeight(m, i, n) THEN Some(WeightAt(w, i)) ELSE None]] :
        n \in 0..MaxTdeeLogs, k \in TdeeKcalPatterns, w \in TdeeWeightPatterns,
        m \in TdeeMissingPatterns }

\* baselines: a kcal goal or the kcal of auto_goals
TdeeBaselines == {2000, 1500, 1849, 1234}

InitTdee ==
    /\ pc = "tdee_call"
    /\ today = StartDate
    /\ logs \in TdeeHistories
    /\ args \in [base : TdeeBaselines]
    /\ ret = None
    /\ profile = NewProfile
    /\ goals = NoGoals
    /\ last = NoOp
    /\ table = None
    /\ foods = None
    /\ recs = None

CallEstimateTdee ==
    /\ pc = "tdee_call"
    /\ ret' = estimate_tdee_from_logs(logs, args.base)
    /\ pc' = "tdee_done"
    /\ UNCHANGED <<profile, goals, logs, last, args, table, foods, recs, today>>

NextTdee == CallEstimateTdee

SpecTdee == InitTdee /\ [][NextTdee]_vars

\* the rows of the history that record both kcal_in and weight_kg, in order
CompleteRows ==
    SelectSeq(logs, LAMBDA e : e.kcal_in # None /\ e.weight_kg # None)

\* C11: with fewer than 10 rows that record both kcal_in and weight_kg the
\* estimator returns the insufficient-data signal
C11_TdeeNeedsTenRows ==
    pc = "tdee_done" => (Len(CompleteRows) < 10 => ret = None)

\* a history of 14 rows or more with some but fewer than 10 complete rows
C11_Witness ==
    /\ pc = "tdee_done"
    /\ Len(logs) >= 14
    /\ Len(CompleteRows) \in 1..9
    /\ ret = None

RawRange == { i \in 1..Len(CompleteRows) : 7 <= i /\ i <= Len(CompleteRows) - 7 }

\* implied seven-day expenditure at complete row i:
\* sum of kcal_in over rows i-6..i minus 7700 * (mean weight of rows
\* i+1..i+7 minus mean weight of rows i-6..i)
ImpliedAt(i) ==
    LET c == CompleteRows
    IN  RSub(RInt(SumField(c, "kcal_in", i - 6, i)),
             RMul(RInt(7700), RSub(Rat(SumField(c, "weight_kg", i + 1, i + 7), 70),
                                   Rat(SumField(c, "weight_kg", i - 6, i), 70))))

RECURSIVE ImpliedSum(_)
ImpliedSum(S) ==
    IF S = {} THEN Zero
    ELSE LET i == CHOOSE x \in S : TRUE
         IN  RAdd(ImpliedAt(i), ImpliedSum(S \ {i}))

\* mean of the implied expenditures over RawRange, divided by 7
RawByRows == RDiv(RDiv(ImpliedSum(RawRange), RInt(Cardinality(RawRange))), RInt(7))

\* x is a nearest integer to the fraction r
Nearest(x, r) == 2 * Abs(x * r.d - r.n) <= r.d

\* C20: when rows remain and the raw estimate lies inside the trust region,
\* the estimator returns the integer nearest to the mean over the rows i with
\* 7 <= i <= n - 7 of the implied seven-day expenditure, divided by 7
C20_RawIsMeanOverRows ==
    (pc = "tdee_done" /\ Len(CompleteRows) >= 10 /\ RawRange # {}) =>
        ((/\ RLeq(Rat(7 * args.base, 10), RawByRows)
          /\ RLeq(RawByRows, Rat(13 * args.base, 10)))
            => ret # None /\ Nearest(ret[1], RawByRows))

\* 16 complete rows with a rising weight: three rows contribute, and the
\* weight change lowers the estimate below the mean intake
C20_Witness ==
    /\ pc = "tdee_done"
    /\ Len(CompleteRows) = 16
    /\ Cardinality(RawRange) = 3
    /\ CompleteRows[16].weight_kg[1] > CompleteRows[1].weight_kg[1]
    /\ RLeq(Rat(7 * args.base, 10), RawByRows)
    /\ RLeq(RawByRows, Rat(13 * args.base, 10))
    /\ ret # None
    /\ ret[1] < 2000
    /\ Nearest(ret[1], RawByRows)

\* C12 as stated: a returned estimate lies within [0.7 * b, 1.3 * b]
C12_EstimateInTrustRegion ==
    (pc = "tdee_done" /\ ret # None) =>
        (7 * args.base <= 10 * ret[1] /\ 10 * ret[1] <= 13 * args.base)

\* the raw estimate moved into [0.7 * b, 1.3 * b]
ClampedRaw ==
    LET lo == Rat(7 * args.base, 10)
        hi == Rat(13 * args.base, 10)
    IN  IF RLeq(RawByRows, lo) THEN lo
        ELSE IF RLeq(hi, RawByRows) THEN hi
        ELSE RawByRows

\* C12 amended: a returned estimate is the integer nearest to the clamped raw
\* estimate, so it lies within half a kcal of [0.7 * b, 1.3 * b]
C12_EstimateNearTrustRegion ==
    (pc = "tdee_done" /\ ret # None) =>
        /\ Nearest(ret[1], ClampedRaw)
        /\ 7 * args.base - 5 <= 10 * ret[1]
        /\ 10 * ret[1] <= 13 * args.base + 5

\* a raw estimate above 1.3 * b, clamped to a bound that is not an integer
\* and rounded up past it
C12_Witness ==
    /\ pc = "tdee_done"
    /\ ret # None
    /\ ~RLeq(RawByRows, Rat(13 * args.base, 10))
    /\ 10 * ret[1] > 13 * args.base

----------------------------------------------------------------------------
(* the unit conversions chained as the profile form chains them: imperial
   entries are stored in metric and shown again in imperial *)

\* pounds (in tenths) tried with every height
UnitLbSamples == {0, 1, 5, 1543, 2205, 11000}

\* feet 0..8, inches 0..11.9 and pounds 0..1100, to one decimal place
UnitInputs ==
    { [ft |-> f, inch |-> i, lb |-> l] :
        f \in 0..8, i \in 0..119, l \in UnitLbSamples }
    \cup { [ft |-> 5, inch |-> 70, lb |-> l] : l \in 0..11000 }

InitUnits ==
    /\ pc = "units_call"
    /\ today = StartDate
    /\ args \in UnitInputs
    /\ ret = <<>>
    /\ profile = NewProfile
    /\ goals = NoGoals
    /\ logs = <<>>
    /\ last = NoOp
    /\ table = None
    /\ foods = None
    /\ recs = None

\* height_cm, weight_kg = to_metric_from_imperial(ft, inch, weight_lb)
CallToMetric ==
    /\ pc = "units_call"
    /\ ret' = <<to_metric_from_imperial(args.ft, args.inch, args.lb)>>
    /\ pc' = "units_metric"
    /\ UNCHANGED <<profile, goals, logs, last, args, table, foods, recs, today>>

\* imp, lb = to_imperial_from_metric(height_cm, weight_kg)
CallToImperial ==
    /\ pc = "units_metric"
    /\ ret' = Append(ret, to_imperial_from_metric(ret[1].cm, ret[1].kg))
    /\ pc' = "units_done"
    /\ UNCHANGED <<profile, goals, logs, last, args, table, foods, recs, today>>

NextUnits == CallToMetric \/ CallToImperial

SpecUnits == InitUnits /\ [][NextUnits]_vars

\* C13: converting (ft, in, lb) to metric and back gives the same feet, and
\* inches and pounds within 0.1 of the ones entered
C13_RoundTrip ==
    pc = "units_done" =>
        /\ ret[2].ft = args.ft
        /\ Abs(ret[2].inch - args.inch) <= 1
        /\ Abs(ret[2].lb - args.lb) <= 1

\* 8 ft 11.9 in and 1100 lb, stored as 274.066 cm and 498.951607 kg, come back
C13_Witness ==
    /\ pc = "units_done"
    /\ args = [ft |-> 8, inch |-> 119, lb |-> 11000]
    /\ ret[1].cm = Rat(274066, 1000)
    /\ ret[1].kg = [hi |-> 49895160, lo |-> 7000]
    /\ ret[2] = [ft |-> 8, inch |-> 119, lb |-> 11000]

----------------------------------------------------------------------------
(* the five core functions called twice on the same stored inputs, with
   days passing between the two calls *)

MaxDaysPassed == 2    \* most days that pass between the two calls

CallProfiles ==
    { [sex |-> s, dob |-> d, height_cm |-> Some(1650), weight_kg |-> w,
       activity_level |-> "light"] :
        s \in {"female", "male"},
        d \in { None, Some([year |-> 2000, month |-> 6, day |-> 16]),
                Some([year |-> 2000, month |-> 6, day |-> 17]),
                Some([year |-> 1990, month |-> 1, day |-> 1]) },
        w \in {None, Some(600)} }

\* no history, and 14 complete days with a rising weight
CallLogs ==
    { <<>>,
      [i \in 1..14 |-> [date |-> i, kcal_in |-> Some(2000), protein_g |-> Some(100),
                        weight_kg |-> Some(700 + i)]] }

CallGoals ==
    { NoGoals,
      GoalsRow([kcal |-> 2000, protein_g |-> 100, carbs_g |-> 200, fat_g |-> 60,
                fiber_g |-> 30, water_ml |-> 2500]) }

\* a food list of two rows under plain English headers
CallTable ==
    [cols |-> << <<"F", "o", "o", "d">>, <<"k", "c", "a", "l">>,
                 <<"p", "r", "o", "t", "e", "i", "n">>, <<"c", "a", "r", "b", "s">>,
                 <<"f", "a", "t">> >>,
     rows |-> << <<Some(<<"E", "g", "g">>), Some(<<"1", "5", "5">>), Some(<<"1", "3">>),
                   Some(<<"1">>), Some(<<"1", "1">>)>>,
                 <<Some(<<"R", "i", "c", "e">>), Some(<<"1", "3", "0">>), Some(<<"3">>),
                   Some(<<"2", "8">>), Some(<<"0">>)>> >>]

\* what the five functions return for the stored inputs, and the day of the call
CoreOutputs ==
    [on     |-> today,
     auto   |-> auto_goals(profile),
     macros |-> recommended_macros(profile, 2000, "fat_loss"),
     tune   |-> adherence_tune(logs, goals),
     tdee   |-> estimate_tdee_from_logs(logs, 2000),
     meals  |-> suggest_meals(foods.rows, goals, 600, "balanced", 2),
     inputs |-> <<profile, logs, goals, foods>>]

InitCalls ==
    /\ pc = "first"
    /\ today = StartDate
    /\ profile \in CallProfiles
    /\ logs \in CallLogs
    /\ goals \in CallGoals
    /\ table = CallTable
    /\ foods = load_foods(CallTable)
    /\ ret = <<>>
    /\ last = NoOp
    /\ args = None
    /\ recs = None

CallFirst ==
    /\ pc = "first"
    /\ ret' = <<CoreOutputs>>
    /\ pc' = "between"
    /\ UNCHANGED <<profile, goals, logs, last, args, table, foods, recs, today>>

\* midnight passes
DayPasses ==
    /\ pc = "between"
    /\ today.day < StartDate.day + MaxDaysPassed
    /\ today' = [today EXCEPT !.day = @ + 1]
    /\ UNCHANGED <<pc, profile, goals, logs, last, args, ret, table, foods, recs>>

CallSecond ==
    /\ pc = "between"
    /\ ret' = Append(ret, CoreOutputs)
    /\ pc' = "second_done"
    /\ UNCHANGED <<profile, goals, logs, last, args, table, foods, recs, today>>

NextCalls == CallFirst \/ DayPasses \/ CallSecond

SpecCalls == InitCalls /\ [][NextCalls]_vars

\* the two calls returned the same from the four functions that take no date
SameButAuto ==
    /\ ret[1].macros = ret[2].macros
    /\ ret[1].tune = ret[2].tune
    /\ ret[1].tdee = ret[2].tdee
    /\ ret[1].meals = ret[2].meals

\* the inputs are as they were before the first call
InputsIntact ==
    /\ ret[1].inputs = <<profile, logs, goals, foods>>
    /\ ret[2].inputs = ret[1].inputs

----------------------------------------------------------------------------
(* adherence_tune on histories whose rows hit or miss the targets *)

MaxRateLogs == 8      \* longest log history of the rate scenarios

\* log rows around the targets 2000 kcal and 100 g: on the lower kcal bound
\* and the protein bound, on the upper kcal bound and below the protein
\* bound, above the upper kcal bound, and without kcal_in
RateLogKinds ==
    { [kcal_in |-> Some(1900), protein_g |-> Some(90)],
      [kcal_in |-> Some(2100), protein_g |-> Some(89)],
      [kcal_in |-> Some(2101), protein_g |-> Some(100)],
      [kcal_in |-> None,       protein_g |-> Some(100)] }

RateGoals ==
    { GoalsRow([kcal |-> 2000, protein_g |-> 100, carbs_g |-> 200, fat_g |-> 60,
                fiber_g |-> 30, water_ml |-> 2500]),
      GoalsRow([kcal |-> 1810, protein_g |-> 99, carbs_g |-> 200, fat_g |-> 60,
                fiber_g |-> 30, water_ml |-> 2500]) }

InitRates ==
    /\ pc = "rates_log"
    /\ today = StartDate
    /\ logs = <<>>
    /\ goals \in RateGoals
    /\ profile = NewProfile
    /\ last = NoOp
    /\ args = None
    /\ ret = None
    /\ table = None
    /\ foods = None
    /\ recs = None

\* one more day is recorded, dated after the days recorded so far
AddRateLog ==
    /\ pc = "rates_log"
    /\ Len(logs) < MaxRateLogs
    /\ \E k \in RateLogKinds :
         logs' = Append(logs, [date |-> Len(logs) + 1, kcal_in |-> k.kcal_in,
                               protein_g |-> k.protein_g])
    /\ UNCHANGED <<pc, profile, goals, last, args, ret, table, foods, recs, today>>

CallAdherenceRates ==
    /\ pc = "rates_log"
    /\ ret' = adherence_tune(logs, goals)
    /\ pc' = "rates_done"
    /\ UNCHANGED <<profile, goals, logs, last, args, table, foods, recs, today>>

NextRates == AddRateLog \/ CallAdherenceRates

SpecRates == InitRates /\ [][NextRates]_vars

\* C16: kcal_adjust is -100 for kcal_rate < 0.4, +100 for kcal_rate > 0.8 and
\* 0 for a rate from 0.4 to 0.8, both included; it is never another value
C16_AdjustByRate ==
    (pc = "rates_done" /\ ret # None) =>
        LET r == ret[1].kcal_rate
            a == ret[1].kcal_adjust
        IN  /\ a \in {-100, 0, 100}
            /\ 10 * r.n < 4 * r.d => a = -100
            /\ 10 * r.n > 8 * r.d => a = 100
            /\ (4 * r.d <= 10 * r.n /\ 10 * r.n <= 8 * r.d) => a = 0

\* two of five kept days on target: the rate is exactly 0.4 and nothing changes
C16_Witness ==
    /\ pc = "rates_done"
    /\ ret # None
    /\ ret[1].kcal_rate = [n |-> 2, d |-> 5]
    /\ ret[1].kcal_adjust = 0

\* the kept rows whose kcal_in lies within 5% of the kcal target, bounds included
KcalOnTarget ==
    { i \in CompleteInWindow :
        /\ 100 * logs[i].kcal_in[1] >= 95 * goals.kcal[1]
        /\ 100 * logs[i].kcal_in[1] <= 105 * goals.kcal[1] }

\* the kept rows whose protein_g is at least 90% of the protein target
ProteinOnTarget ==
    { i \in CompleteInWindow : 10 * logs[i].protein_g[1] >= 9 * goals.protein_g[1] }

\* the fraction r equals a / b
IsFraction(r, a, b) == r.d > 0 /\ b > 0 /\ r.n * b = a * r.d

\* C17: the rows kept are the complete ones among the last N; kcal_rate is
\* the fraction of them within 5% of the kcal target (bounds included),
\* protein_rate the fraction with at least 90% of the protein target;
\* both rates lie in [0, 1]
C17_RatesAreFractions ==
    (pc = "rates_done" /\ ret # None) =>
        /\ IsFraction(ret[1].kcal_rate, Cardinality(KcalOnTarget),
                      Cardinality(CompleteInWindow))
        /\ IsFraction(ret[1].protein_rate, Cardinality(ProteinOnTarget),
                      Cardinality(CompleteInWindow))
        /\ 0 <= ret[1].kcal_rate.n /\ ret[1].kcal_rate.n <= ret[1].kcal_rate.d
        /\ 0 <= ret[1].protein_rate.n /\ ret[1].protein_rate.n <= ret[1].protein_rate.d

\* eight rows: the oldest, complete and off target, falls outside the window;
\* of the last seven one lacks kcal_in and the six kept are on the kcal bounds
C17_Witness ==
    /\ pc = "rates_done"
    /\ Len(logs) = 8
    /\ goals.kcal = Some(2000)
    /\ logs[1].kcal_in = Some(2101)
    /\ Cardinality(CompleteInWindow) = 6
    /\ \E i \in CompleteInWindow : logs[i].kcal_in = Some(1900)
    /\ \E i \in CompleteInWindow : logs[i].kcal_in = Some(2100)
    /\ ret # None
    /\ ret[1].kcal_rate = [n |-> 6, d |-> 6]
    /\ ret[1].protein_rate.n \in 1..5

----------------------------------------------------------------------------
(* load_foods on tables with numeric cells, and load_foods on the table that
   its own result makes when written out as CSV *)

MaxResolveRows == 2   \* most rows of a table with numeric cells

\* headers: the five standard names; columns that match two synonyms of one
\* field, out of synonym order; no food and no kcal column; localized names;
\* the longer English synonyms
ResolveHeaders ==
    { <<<<"f", "o", "o", "d">>, <<"k", "c", "a", "l">>, <<"p", "r", "o", "t", "e", "i", "n", "_", "g">>, <<"c", "a", "r", "b", "s", "_", "g">>, <<"f", "a", "t", "_", "g">>>>,
      <<<<" ", "N", "a", "m", "e", " ">>, <<"F", "o", "o", "d">>, <<"C", "a", "l", "o", "r", "i", "e", "s">>, <<" ", "k", "c", "a", "l">>, <<"F", "a", "t", " ", "(", "g", ")">>>>,
      <<<<"i", "d">>, <<"e", "n", "e", "r", "g", "y">>, <<"P", "r", "o", "t", "e", "i", "n">>, <<"C", "A", "R", "B", "S">>, <<"f", "a", "t">>>>,
      <<<<"u98df", "u7269">>, <<"u71b1", "u91cf">>, <<"u86cb", "u767d", "u8cea">>, <<"u78b3", "u6c34">>, <<"u8102", "u80aa">>>>,
      <<<<"I", "t", "e", "m">>, <<"K", "C", "A", "L">>, <<"k", "c", "a", "l">>, <<"C", "a", "r", "b", "o", "h", "y", "d", "r", "a", "t", "e", "s">>, <<"F", "A", "T", "_", "G">>>> }

\* rows of plain names and numeric cells; one row has no kcal
ResolveRowSamples ==
    { <<Some(<<"C", "h", "i", "c", "k", "e", "n">>), Some(<<"1", "6", "5">>), Some(<<"3", "0">>), Some(<<"0">>), Some(<<"5">>)>>,
      <<Some(<<"R", "i", "c", "e">>), Some(<<"1", "3", "0">>), Some(<<"2", ".", "5">>), Some(<<"2", "8">>), Some(<<"0", ".", "5">>)>>,
      <<Some(<<"O", "i", "l">>), Some(<<"-", "5">>), Some(<<"1", ".", "5">>), Some(<<"7">>), Some(<<"1", "0", "0">>)>>,
      <<Some(<<"W", "a", "t", "e", "r">>), None, Some(<<"1">>), Some(<<"2">>), Some(<<"3">>)>>,
      <<Some(<<"T", "e", "a">>), Some(<<"0">>), Some(<<"0">>), Some(<<"1", "2">>), Some(<<"0">>)>> }

ResolveTables ==
    { [cols |-> h, rows |-> rs] :
        h \in ResolveHeaders,
        rs \in UNION { [1..k -> ResolveRowSamples] : k \in 0..MaxResolveRows } }

\* str(x) of a float with at most one decimal digit, as to_csv writes it and
\* as load_foods reads it back through str(x)
FloatText(x) ==
    LET t == (Abs(x.n) * 10) \div x.d
    IN  (IF x.n < 0 THEN <<"-">> ELSE <<>>)
            \o IndexStr(t \div 10) \o <<".", Digits[(t % 10) + 1]>>

\* the five standard columns of a result, as the table read back from its CSV
\* (the density columns match no synonym and are never read)
AsTable(out) ==
    [cols |-> [i \in 1..5 |-> StdName(StdFields[i])],
     rows |-> [r \in 1..Len(out.rows) |->
                 <<Some(out.rows[r].food),
                   Some(FloatText(out.rows[r].kcal[1])),
                   Some(FloatText(out.rows[r].protein_g[1])),
                   Some(FloatText(out.rows[r].carbs_g[1])),
                   Some(FloatText(out.rows[r].fat_g[1]))>>]]

InitResolve ==
    /\ pc = "load"
    /\ today = StartDate
    /\ table \in ResolveTables
    /\ foods = None
    /\ recs = None
    /\ args = None
    /\ ret = None
    /\ profile = NewProfile
    /\ goals = NoGoals
    /\ logs = <<>>
    /\ last = NoOp

\* load_foods(csv of load_foods(uploaded)); ret keeps the first result
Renormalize ==
    /\ pc = "loaded"
    /\ ret' = Some(foods)
    /\ table' = AsTable(foods)
    /\ foods' = load_foods(AsTable(foods))
    /\ pc' = "reloaded"
    /\ UNCHANGED <<profile, goals, logs, last, args, recs, today>>

NextResolve == LoadFoods \/ Renormalize

SpecResolve == InitResolve /\ [][NextResolve]_vars

\* the name of input column i without case and surrounding whitespace
NormName(i) == LowerStr(Strip(table.cols[i]))

\* the input columns whose name is a synonym of field f
MatchCols(f) ==
    { i \in 1..Len(table.cols) :
        \E k \in 1..Len(STANDARD_COLS[f]) : NormName(i) = STANDARD_COLS[f][k] }

\* the first match: the leftmost column named by the earliest synonym of f
\* that names any column
FirstMatch(f) ==
    CHOOSE i \in MatchCols(f) :
        \E k \in 1..Len(STANDARD_COLS[f]) :
            /\ NormName(i) = STANDARD_COLS[f][k]
            /\ \A j \in 1..(i - 1) : NormName(j) # STANDARD_COLS[f][k]
            /\ \A j \in MatchCols(f) : \A k2 \in 1..(k - 1) :
                   NormName(j) # STANDARD_COLS[f][k2]

\* C22: a field with a matching column resolves to the first match and takes
\* its values from that column; a field with none is named by its standard
\* name and is missing in every row (0 after the fill); the load returns a
\* result either way, with no row at all when kcal is unresolved
C22_ColumnResolution ==
    pc \in {"loaded", "reloaded"} =>
        \A f \in {"food", "kcal", "protein_g", "carbs_g", "fat_g"} :
            IF MatchCols(f) # {}
            THEN /\ foods.columns_mapped[f] = table.cols[FirstMatch(f)]
                 /\ \A i \in 1..Len(foods.rows) :
                        LET c == table.rows[foods.rows[i].idx + 1][FirstMatch(f)]
                        IN  IF f = "food" THEN foods.rows[i][f] = FoodText(c)
                            ELSE foods.rows[i][f] = FillNaAll(_to_number(c))
            ELSE /\ foods.columns_mapped[f] = StdName(f)
                 /\ foods.rows_in = Len(table.rows)
                 /\ f = "kcal" => foods.rows = <<>>
                 /\ f \in {"protein_g", "carbs_g", "fat_g"} =>
                        \A i \in 1..Len(foods.rows) : foods.rows[i][f] = Some(Zero)

\* a loaded table with rows kept, in which one field resolves to a column
\* that is not the leftmost of its matching columns, one field resolves
\* through surrounding whitespace and one field has no matching column
C22_Witness ==
    /\ pc = "loaded"
    /\ Len(foods.rows) > 0
    /\ \E f \in {"food", "kcal"} :
           \E j \in MatchCols(f) : j < FirstMatch(f)
    /\ \E f \in {"food", "kcal"} :
           MatchCols(f) # {} /\ table.cols[FirstMatch(f)] # Strip(table.cols[FirstMatch(f)])
    /\ MatchCols("protein_g") = {}
    /\ foods.columns_mapped["protein_g"] = StdName("protein_g")

\* C29: load_foods of its own result returns the same food, kcal, protein_g,
\* carbs_g and fat_g in every row
C29_NormalizerIdempotent ==
    pc = "reloaded" =>
        /\ Len(foods.rows) = Len(ret[1].rows)
        /\ \A i \in 1..Len(foods.rows) :
               \A f \in {"food", "kcal", "protein_g", "carbs_g", "fat_g"} :
                   foods.rows[i][f] = ret[1].rows[i][f]

----------------------------------------------------------------------------
(* _goal_ratios as a function of the goals given to the ranker *)

\* gram goals: not set, 0, and positive values
RatioGrams == {None, Some(0), Some(1), Some(45), Some(120)}

RatioGoals ==
    { [NoGoals EXCEPT !.row = TRUE, !.kcal = Some(1800),
                      !.protein_g = p, !.carbs_g = c, !.fat_g = f] :
        p \in RatioGrams, c \in RatioGrams, f \in RatioGrams }

InitRatios ==
    /\ pc = "ratios_call"
    /\ today = StartDate
    /\ args \in [goals : RatioGoals]
    /\ ret = None
    /\ profile = NewProfile
    /\ goals = NoGoals
    /\ logs = <<>>
    /\ last = NoOp
    /\ table = None
    /\ foods = None
    /\ recs = None

\* gp, gc, gf = _goal_ratios(goals)
CallGoalRatios ==
    /\ pc = "ratios_call"
    /\ ret' = Some(_goal_ratios(args.goals))
    /\ pc' = "ratios_done"
    /\ UNCHANGED <<profile, goals, logs, last, args, table, foods, recs, today>>

NextRatios == CallGoalRatios

SpecRatios == InitRatios /\ [][NextRatios]_vars

\* 4 * protein_g + 4 * carbs_g + 9 * fat_g of the goals given
GoalEnergy ==
    4 * args.goals.protein_g[1] + 4 * args.goals.carbs_g[1] + 9 * args.goals.fat_g[1]

\* C24: for goals with protein_g, carbs_g and fat_g >= 0 the ratios are
\* 4 * protein_g, 4 * carbs_g and 9 * fat_g, each divided by the larger of
\* their sum and 1; a goal of 0 g has ratio 0 and the ratios sum to 1 when
\* the sum is at least 1
C24_GoalRatios ==
    (/\ pc = "ratios_done"
     /\ args.goals.protein_g # None
     /\ args.goals.carbs_g # None
     /\ args.goals.fat_g # None) =>
        LET t == IF GoalEnergy >= 1 THEN GoalEnergy ELSE 1
        IN  /\ ret[1].gp = Rat(4 * args.goals.protein_g[1], t)
            /\ ret[1].gc = Rat(4 * args.goals.carbs_g[1], t)
            /\ ret[1].gf = Rat(9 * args.goals.fat_g[1], t)
            /\ args.goals.protein_g = Some(0) => ret[1].gp = Zero
            /\ args.goals.carbs_g = Some(0) => ret[1].gc = Zero
            /\ args.goals.fat_g = Some(0) => ret[1].gf = Zero
            /\ GoalEnergy >= 1 => RAdd(RAdd(ret[1].gp, ret[1].gc), ret[1].gf) = RInt(1)

----------------------------------------------------------------------------
(* parse_age as a function of a date of birth and the day of the call *)

\* dates of birth: not set; dates strptime rejects (30 February, 29 February
\* of a non-leap year, month 13, year 0); 29 February; days around the
\* days of the calls; dates after them
AgeDobs ==
    { None,
      Some([year |-> 2001, month |-> 2, day |-> 30]),
      Some([year |-> 2001, month |-> 2, day |-> 29]),
      Some([year |-> 2000, month |-> 13, day |-> 1]),
      Some([year |-> 0, month |-> 1, day |-> 1]),
      Some([year |-> 2000, month |-> 2, day |-> 29]),
      Some([year |-> 1996, month |-> 2, day |-> 29]),
      Some([year |-> 2000, month |-> 6, day |-> 15]),
      Some([year |-> 2000, month |-> 6, day |-> 16]),
      Some([year |-> 1990, month |-> 12, day |-> 31]),
      Some([year |-> 2025, month |-> 3, day |-> 1]),
      Some([year |-> 2025, month |-> 12, day |-> 31]),
      Some([year |-> 2030, month |-> 1, day |-> 1]) }

\* days on which parse_age is called
AgeTodays ==
    { [year |-> 2024, month |-> 2, day |-> 28],
      [year |-> 2024, month |-> 2, day |-> 29],
      [year |-> 2025, month |-> 2, day |-> 28],
      [year |-> 2025, month |-> 3, day |-> 1],
      [year |-> 2025, month |-> 6, day |-> 15],
      [year |-> 2025, month |-> 12, day |-> 31],
      [year |-> 2026, month |-> 1, day |-> 1] }

InitAge ==
    /\ pc = "age_call"
    /\ today \in AgeTodays
    /\ args \in [dob : AgeDobs]
    /\ ret = None
    /\ profile = NewProfile
    /\ goals = NoGoals
    /\ logs = <<>>
    /\ last = NoOp
    /\ table = None
    /\ foods = None
    /\ recs = None

\* age = parse_age(profile.get("dob")); ret is None for an unset age
CallParseAge ==
    /\ pc = "age_call"
    /\ ret' = parse_age(args.dob)
    /\ pc' = "age_done"
    /\ UNCHANGED <<profile, goals, logs, last, args, table, foods, recs, today>>

NextAge == CallParseAge

SpecAge == InitAge /\ [][NextAge]_vars

\* the date has a month 1..12 and a day that the month has in that year
OnCalendar(d) ==
    /\ d.year >= 1
    /\ d.month \in 1..12
    /\ d.day >= 1
    /\ d.day <= (CASE d.month = 2 ->
                        IF d.year % 4 = 0 /\ (d.year % 100 # 0 \/ d.year % 400 = 0)
                        THEN 29 ELSE 28
                   [] d.month \in {4, 6, 9, 11} -> 30
                   [] OTHER -> 31)

\* the date a comes before the date b
DateBefore(a, b) ==
    \/ a.year < b.year
    \/ a.year = b.year /\ a.month < b.month
    \/ a.year = b.year /\ a.month = b.month /\ a.day < b.day

\* C25: the age is unset for an absent or unparseable date of birth; else
\* it is max(0, today.year - dob.year - 1) when (today.month, today.day) <
\* (dob.month, dob.day) and max(0, today.year - dob.year) otherwise; for a
\* 29 February birth date the year is counted from 1 March in a non-leap
\* year, and a birth date after today gives 0
C25_AgeYears ==
    pc = "age_done" =>
        IF args.dob = None THEN ret = None
        ELSE LET d    == args.dob[1]
                 diff == today.year - d.year
             IN  IF ~OnCalendar(d) THEN ret = None
                 ELSE /\ ret = Some(IF <<today.month, today.day>> \in
                                         { <<m, n>> \in (1..12) \X (1..31) :
                                             m < d.month \/ (m = d.month /\ n < d.day) }
                                      THEN Max(0, diff - 1) ELSE Max(0, diff))
                      /\ (d.month = 2 /\ d.day = 29 /\ diff > 0) =>
                             /\ (today.month = 2 /\ today.day = 28) => ret = Some(diff - 1)
                             /\ (today.month = 3 /\ today.day = 1) => ret = Some(diff)
                      /\ DateBefore(today, d) => ret = Some(0)

\* a person born on 29 February 2000 is 24 on 28 February 2025
C25_Witness ==
    /\ pc = "age_done"
    /\ args.dob = Some([year |-> 2000, month |-> 2, day |-> 29])
    /\ today = [year |-> 2025, month |-> 2, day |-> 28]
    /\ ret = Some(24)

----------------------------------------------------------------------------
(* app.py: two sessions of one user, one pressing "Suggested Adjustment" and
   one pressing "Generate Macro Recommendations".  Every db call opens its
   own connection and commits on its own, so each call is one step and the
   steps of the two sessions interleave.  args holds the locals of the two
   script runs *)

\* stored goals rows at the start
SessionGoals == { upsert_goals(GoalsRow(g)) : g \in HostGoalInputs }

\* stored histories at the start: on target, off target, one of each
SessionLogs ==
    { <<[date |-> 1, kcal_in |-> Some(2000), protein_g |-> Some(100)]>>,
      <<[date |-> 1, kcal_in |-> Some(500), protein_g |-> Some(0)]>>,
      <<[date |-> 1, kcal_in |-> Some(2000), protein_g |-> Some(100)],
        [date |-> 2, kcal_in |-> Some(500), protein_g |-> Some(0)]>> }

InitSessions ==
    /\ pc = "sessions"
    /\ today = StartDate
    /\ profile \in HostProfiles
    /\ goals \in SessionGoals
    /\ logs \in SessionLogs
    /\ \E goal \in HostScenarios :
         args = [tuner |-> [at |-> "start", res |-> None, g |-> NoGoals, new_kcal |-> None],
                 macro |-> [at |-> "start", goal |-> goal, macros |-> None, g |-> NoGoals]]
    /\ last = NoOp
    /\ ret = None
    /\ table = None
    /\ foods = None
    /\ recs = None

SessionsUnchanged == UNCHANGED <<pc, profile, logs, last, ret, table, foods, recs, today>>

\* res = adherence_tune(df, db.get_goals(email))
TunerTune ==
    /\ pc = "sessions"
    /\ args.tuner.at = "start"
    /\ args' = [args EXCEPT !.tuner.at = "tuned",
                            !.tuner.res = adherence_tune(logs, goals)]
    /\ UNCHANGED goals
    /\ SessionsUnchanged

\* if res and res["kcal_adjust"] != 0: g = db.get_goals(email) or {};
\* new_kcal = max(1000, ...); otherwise the run ends without a write
TunerRead ==
    /\ pc = "sessions"
    /\ args.tuner.at = "tuned"
    /\ LET res == args.tuner.res
       IN  IF res # None /\ res[1].kcal_adjust # 0
           THEN args' = [args EXCEPT
                            !.tuner.at = "read",
                            !.tuner.g = goals,
                            !.tuner.new_kcal =
                                Some(AdjustedKcal(_ival(goals.kcal, 2000), res[1].kcal_adjust))]
           ELSE args' = [args EXCEPT !.tuner.at = "done"]
    /\ UNCHANGED goals
    /\ SessionsUnchanged

\* db.upsert_goals(email, {**g, "kcal": new_kcal})
TunerWrite ==
    /\ pc = "sessions"
    /\ args.tuner.at = "read"
    /\ goals' = upsert_goals(MergeKcal(args.tuner.g, args.tuner.new_kcal[1]))
    /\ args' = [args EXCEPT !.tuner.at = "done"]
    /\ SessionsUnchanged

\* kcal_now = int((db.get_goals(email) or auto_goals(...)).get("kcal") or 2000);
\* macros = recommended_macros(db.get_profile(email), kcal_now, goal)
MacroCompute ==
    /\ pc = "sessions"
    /\ args.macro.at = "start"
    /\ LET cur      == IF goals.row THEN goals ELSE GoalsRow(auto_goals(profile))
           kcal_now == OrDefault(cur.kcal, 2000)
       IN  args' = [args EXCEPT
                       !.macro.at = "computed",
                       !.macro.macros =
                           Some(recommended_macros(profile, kcal_now, args.macro.goal))]
    /\ UNCHANGED goals
    /\ SessionsUnchanged

\* the argument db.get_goals(email) or {} of the upsert call
MacroRead ==
    /\ pc = "sessions"
    /\ args.macro.at = "computed"
    /\ args' = [args EXCEPT !.macro.at = "read", !.macro.g = goals]
    /\ UNCHANGED goals
    /\ SessionsUnchanged

\* db.upsert_goals(email, {**(...), **macros})
MacroWrite ==
    /\ pc = "sessions"
    /\ args.macro.at = "read"
    /\ goals' = upsert_goals(MergeMacros(args.macro.g, args.macro.macros[1]))
    /\ args' = [args EXCEPT !.macro.at = "done"]
    /\ SessionsUnchanged

NextSessions ==
    \/ TunerTune
    \/ TunerRead
    \/ TunerWrite
    \/ MacroCompute
    \/ MacroRead
    \/ MacroWrite

SpecSessions == InitSessions /\ [][NextSessions]_vars

\* C26: when both sessions have finished and the tuner has written, the
\* stored row holds the tuner's new kcal and the recommender's protein_g,
\* fat_g and carbs_g
C26_NoLostUpdate ==
    (/\ pc = "sessions"
     /\ args.tuner.at = "done"
     /\ args.macro.at = "done"
     /\ args.tuner.new_kcal # None) =>
        /\ goals.kcal = args.tuner.new_kcal
        /\ goals.protein_g = Some(args.macro.macros[1].protein_g)
        /\ goals.fat_g = Some(args.macro.macros[1].fat_g)
        /\ goals.carbs_g = Some(args.macro.macros[1].carbs_g)

----------------------------------------------------------------------------
(* app.py: "Suggested Adjustment" pressed again and again in one session,
   with no record added in between *)

MaxRepeatLogs == 3    \* most stored records while the button is pressed

\* kcal_in of the stored records
RepeatIntakes == {1000, 2000, 2100}

\* stored histories of one record or more, protein on target
RepeatLogs ==
    { [i \in 1..n |-> [date |-> i, kcal_in |-> Some(k[i]), protein_g |-> Some(100)]] :
        n \in 1..MaxRepeatLogs, k \in [1..MaxRepeatLogs -> RepeatIntakes] }

\* stored goals at the start
RepeatGoals ==
    { upsert_goals(GoalsRow([kcal |-> k, protein_g |-> 100, carbs_g |-> 200,
                             fat_g |-> 60, fiber_g |-> 30, water_ml |-> 2500])) :
        k \in {1000, 2000} }

InitRepeat ==
    /\ pc = "host"
    /\ today = StartDate
    /\ profile \in HostProfiles
    /\ goals \in RepeatGoals
    /\ logs \in RepeatLogs
    /\ last = NoOp
    /\ args = None
    /\ ret = None
    /\ table = None
    /\ foods = None
    /\ recs = None

NextRepeat == SuggestedAdjustment

\* the button can always be pressed again
SpecRepeat == InitRepeat /\ [][NextRepeat]_vars /\ WF_vars(SuggestedAdjustment)

\* pressing the button leaves the stored kcal as it is
KcalSettled ==
    LET res == adherence_tune(logs, goals)
    IN  \/ res = None
        \/ res[1].kcal_adjust = 0
        \/ goals.kcal = Some(AdjustedKcal(_ival(goals.kcal, 2000), res[1].kcal_adjust))

\* C27: with the history unchanged, repeated applications reach a kcal target
\* that every further application leaves unchanged
C27_AdjustmentSettles == <>[]KcalSettled

----------------------------------------------------------------------------
(* app.py: the profile form in imperial units, which shows the stored metric
   height and weight through to_imperial_from_metric *)

\* stored heights: not set, or 0.0 .. 300.0 cm in steps of 0.1 (the range of
\* the "Height (cm)" input), in tenths
StoredHeights == {None} \cup { Some(h) : h \in 0..3000 }

\* a stored weight in tenths of a kg, in units of 10^-9 kg
KgOfTenths(w) == [hi |-> w * 10000, lo |-> 0]

InitImperial ==
    /\ pc = "imperial_call"
    /\ today = StartDate
    /\ \E h \in StoredHeights :
         profile = [NewProfile EXCEPT !.height_cm = h, !.weight_kg = Some(700)]
    /\ args = None
    /\ ret = None
    /\ goals = NoGoals
    /\ logs = <<>>
    /\ last = NoOp
    /\ table = None
    /\ foods = None
    /\ recs = None

\* imp, lb = to_imperial_from_metric(float(prof.get("height_cm") or 170.0),
\*                                   float(prof.get("weight_kg") or 70.0))
ShowImperialForm ==
    /\ pc = "imperial_call"
    /\ ret' = Some(to_imperial_from_metric(Rat(OrDefault(profile.height_cm, 1700), 10),
                                           KgOfTenths(OrDefault(profile.weight_kg, 700))))
    /\ pc' = "imperial_done"
    /\ UNCHANGED <<profile, goals, logs, last, args, table, foods, recs, today>>

NextImperial == ShowImperialForm

SpecImperial == InitImperial /\ [][NextImperial]_vars

\* C28: for every stored height the inches shown are between 0 and 11.9,
\* the range of the "Height (in)" input
C28_InchesInRange ==
    pc = "imperial_done" => (ret[1].inch >= 0 /\ ret[1].inch <= 119)

====
